---- MODULE Spec2Model ----
(***************************************************************************)
(* A model of the risk-and-routing core of bantaybaha-ai:                  *)
(*   weather/client.py        get_hourly_rain, its parsers, cache, fallback *)
(*   risk/upstream.py         compute_upstream_rain_index                   *)
(*   risk/risk_engine.py      estimate_flood_risk                           *)
(*   routing/routing_engine.py compute_safe_route                           *)
(*                                                                         *)
(* Units.  Rainfall entering the program (provider payloads, demo values)  *)
(* is carried in hundredths of a millimetre, rainfall leaving round(x, 1)  *)
(* in tenths.  Coordinates are carried in micro-degrees, so that           *)
(* round(lat, 5) and f"{lat:.4f}" are real conversions.  Wall-clock time   *)
(* (time.time()) is in seconds.                                            *)
(***************************************************************************)
EXTENDS Integers, Sequences, FiniteSets, TLC

VARIABLES
    hourly_cache,   \* weather/client.py:157  _hourly_cache: key -> (stored_at, values)
    now,            \* time.time()
    api_key,        \* settings.OPENWEATHER_API_KEY
    hash_seed,      \* the process's string-hash seed (PYTHONHASHSEED), read by hash()
    river_file,     \* what data/negros_river_graph.gpickle holds
    road_file,      \* what data/negros_graph.graphml holds
    geodata,        \* what the elevation, river and flood-zone sources answer
    has_read_gpickle,   \* whether the installed networkx still has read_gpickle
    river_graph_cache,  \* risk/upstream.py:38  lru_cache of _load_river_graph
    load_graph_cache,   \* routing/routing_engine.py:29  lru_cache of load_graph
    last,           \* the most recent get_hourly_rain call: arguments and outcome
    run,            \* the most recent upstream, risk or route call and its outcome
    ncalls,         \* number of top-level calls made so far
    loads,          \* the threads that are calling load_graph or _load_river_graph
    calc,           \* the most recent call of a function that reads no state
    backtest        \* the BacktestRun table, the runs that have result rows, and
                    \* the run_backtest calls under way

world == <<api_key, hash_seed, river_file, road_file, geodata, has_read_gpickle>>

aside == <<loads, calc, backtest>>

vars ==
    <<hourly_cache, now, world, river_graph_cache, load_graph_cache, last, run, ncalls,
      aside>>

----------------------------------------------------------------------------
(* Bounds of the model *)

MaxCalls == 2
MaxNow == 600
MaxBacktestNow == 240

(* Program constants *)

WEATHER_CACHE_SECONDS == 600
DEMO_HOURS_LIMIT == 6
MinHours == 1
MaxHours == 6

----------------------------------------------------------------------------
(* Generic helpers *)

Max(a, b) == IF a >= b THEN a ELSE b
Min(a, b) == IF a <= b THEN a ELSE b

clamp(value, min_value, max_value) == Max(min_value, Min(max_value, value))

Take(s, n) == IF Len(s) <= n THEN s ELSE SubSeq(s, 1, n)

Zeros(n) == [i \in 1..n |-> 0]

RECURSIVE SeqSum(_)
SeqSum(s) == IF s = <<>> THEN 0 ELSE Head(s) + SeqSum(Tail(s))

\* round(x, 1) of a value given in hundredths, as tenths.  The inputs of the
\* model carry no exact tie (no hundredths digit 5), see RainHundredths.
Round1(h) == (h + 5) \div 10

\* round(c, 5) of a coordinate in micro-degrees, in units of 1e-5 degree;
\* f"{c:.4f}" in units of 1e-4 degree.  The model's coordinates carry no tie.
Round5(c) == (c + 5) \div 10
Fmt4(c) == (c + 50) \div 100

\* safe_hours = max(1, min(6, int(hours)))
SafeHours(hours) == Max(MinHours, Min(MaxHours, hours))

----------------------------------------------------------------------------
(* weather/client.py *)

\* mode = (str(weather_mode).strip().lower() or "live"), over the strings the
\* model passes in.
NormalizeMode(weather_mode) ==
    CASE weather_mode = "" -> "live"
      [] weather_mode = " Demo " -> "demo"
      [] OTHER -> weather_mode

\* _demo_rainfall_cache_key: "demo:none" for a falsy list, else a content hash
\* of the one-decimal values.  The hash is carried as the value list itself
\* (<<>> is "demo:none"): the model assumes the 48-bit digest has no collision.
demo_rainfall_cache_key(demo_rainfall) == demo_rainfall

\* _hourly_cache_key; `reference_time or 'now'` sends None and 0 to the same
\* text, so the model writes both as 0.
hourly_cache_key(lat, lng, mode, reference_time, demo_rainfall) ==
    <<Round5(lat), Round5(lng), mode, reference_time,
      demo_rainfall_cache_key(demo_rainfall)>>

\* A raw demo_rainfall argument is [form, items]: form is the Python type or
\* string syntax, items the elements after json.loads / split(",") / list().
\* An item is [t, v]: t = "num" (float(item) succeeds, finite, v hundredths,
\* possibly negative), "nan", "inf" (float() succeeds, not finite),
\* "text" (float() raises ValueError), "null" (float() raises TypeError).
ItemFloatFails(item) == item.t \in {"text", "null"}
ItemRejected(item) == item.t \in {"nan", "inf"} \/ (item.t = "num" /\ item.v < 0)

\* Variant: invalid items are dropped instead of rejected.
parse_demo_rainfall_values_lenient(raw) ==
    LET good == {i \in 1..Len(raw.items) :
                    ~ItemFloatFails(raw.items[i]) /\ ~ItemRejected(raw.items[i])}
    IN  [ok |-> TRUE,
         values |-> IF good = 1..Len(raw.items)
                    THEN [i \in 1..Min(Len(raw.items), DEMO_HOURS_LIMIT) |->
                             Round1(raw.items[i].v)]
                    ELSE <<>>]

\* parse_demo_rainfall_values: [ok, values]; ok = FALSE is the ValueError.
parse_demo_rainfall_values(raw) ==
    IF raw.form \in {"none", "blank"} THEN [ok |-> TRUE, values |-> <<>>]
    ELSE IF raw.form \in {"badjson", "othertype"} THEN [ok |-> FALSE, values |-> <<>>]
    ELSE \* "json", "csv", "list", "number": the loop over items
      IF \E i \in 1..Len(raw.items) :
             ItemFloatFails(raw.items[i]) \/ ItemRejected(raw.items[i])
      THEN [ok |-> FALSE, values |-> <<>>]
      ELSE [ok |-> TRUE,
            values |-> Take([i \in 1..Len(raw.items) |-> Round1(raw.items[i].v)],
                            DEMO_HOURS_LIMIT)]

\* A raw reference_time argument is [form, sec]: "none", "blank", "garbage",
\* "int" (a number), "digits" (a digit string shorter than 13 characters),
\* "millis" (a digit string of 13 or more characters, sec = value / 1000),
\* "iso" (an ISO-8601 text; sec is the instant it denotes).
\* parse_reference_time: [ok, epoch]; ok = FALSE is the ValueError.
parse_reference_time(reference_time) ==
    IF reference_time.form \in {"none", "blank", "garbage"}
    THEN [ok |-> FALSE, epoch |-> 0]
    ELSE [ok |-> TRUE, epoch |-> reference_time.sec]

\* hash(key) % 12 for key = f"{lat:.4f}:{lng:.4f}:{reference_time or 0}": one
\* fixed function of the key text per process seed.
HashMod12(lat, lng, reference_time) ==
    (hash_seed + Fmt4(lat) + Fmt4(lng) + reference_time) % 12

\* round(clamp(base - i*0.65, 0.0, 50.0), 1) with base = 5.0 + h*0.4, in
\* tenths.  500 + 40h - 65i hundredths is an exact tie for odd i; IEEE-754
\* doubles settle each tie as tabulated here.
FallbackTieUp(h, i) ==
    \/ h \in {1, 6, 7, 11} /\ i % 2 = 1
    \/ h \in {0, 3, 5, 10} /\ i = 5
FallbackValue(h, i) ==
    LET hundredths == 500 + 40 * h - 65 * i
    IN  IF hundredths % 10 = 5
        THEN (hundredths \div 10) + (IF FallbackTieUp(h, i) THEN 1 ELSE 0)
        ELSE Round1(hundredths)

\* _fallback_hourly_rain
fallback_hourly_rain(lat, lng, hours, reference_time) ==
    LET safe_hours == SafeHours(hours)
        h == HashMod12(lat, lng, reference_time)
    IN  [i \in 1..safe_hours |-> FallbackValue(h, i - 1)]

\* Variants of the freshness test: a time limit ten times too short, an
\* inclusive comparison, and no length test.
CacheServesShortTtl(entry, t, safe_hours) ==
    /\ (t - entry.at) * 10 < WEATHER_CACHE_SECONDS
    /\ Len(entry.values) >= safe_hours
CacheServesInclusive(entry, t, safe_hours) ==
    /\ t - entry.at <= WEATHER_CACHE_SECONDS
    /\ Len(entry.values) >= safe_hours
CacheServesAnyLength(entry, t, safe_hours) ==
    t - entry.at < WEATHER_CACHE_SECONDS

\* now - cached_at < WEATHER_CACHE_SECONDS and len(values) >= safe_hours
CacheServes(entry, t, safe_hours) ==
    /\ t - entry.at < WEATHER_CACHE_SECONDS
    /\ Len(entry.values) >= safe_hours

CachePut(cache, key, t, values) ==
    [k \in (DOMAIN cache) \cup {key} |->
        IF k = key THEN [at |-> t, values |-> values] ELSE cache[k]]

\* A provider response is [kind, records]:
\*   "exception"  requests.get raised (timeout, connection error)
\*   "non200"     response.status_code != 200
\*   "badjson"    response.json() raised (JSONDecodeError, a ValueError)
\*   "notdict"    the payload is not a dict
\*   "nolist"     a dict whose "hourly" and "data" are both no list
\*   "hourly", "data"  the list found under that name, as `records`
\* A record is [t, v]:
\*   "nondict"      the record is no dict
\*   "norain"       a dict without "rain"
\*   "rainnotdict"  "rain" is no dict (rain_bucket.get raises AttributeError)
\*   "num"          rain["1h"] is a number or numeric text, v hundredths of mm
\*   "text"         rain["1h"] is non-numeric text (float() raises ValueError)
\*   "badtype"      rain["1h"] is a non-empty list (float() raises TypeError)
extract_hourly_records(resp) ==
    IF resp.kind \in {"hourly", "data"} THEN resp.records ELSE <<>>

\* float(rain_bucket.get("1h", 0.0) or 0.0) for one record, rounded as the
\* final round(float(v), 1) does, in tenths.
RecordValue(rec) == IF rec.t = "num" THEN Round1(rec.v) ELSE 0
RecordRaisesValueError(rec) == rec.t = "text"
RecordRaisesOther(rec) == rec.t \in {"rainnotdict", "badtype"}

NoKey == <<0, 0, "", 0, <<>>>>

Returned(values, cache, key, safe_hours, mode, hit, provider, fallback) ==
    [outcome |-> "return", exc |-> "", values |-> values, cache |-> cache,
     key |-> key, safe_hours |-> safe_hours, mode |-> mode, hit |-> hit,
     provider |-> provider, fallback |-> fallback]

Raised(exc, cache, key, safe_hours, mode, provider) ==
    [outcome |-> "raise", exc |-> exc, values |-> <<>>, cache |-> cache,
     key |-> key, safe_hours |-> safe_hours, mode |-> mode, hit |-> FALSE,
     provider |-> provider, fallback |-> 0]

\* get_hourly_rain, lines 253-297: the provider request and its handlers.
ProviderPath(lat, lng, safe_hours, mode, reference_epoch, key, resp, cache, t) ==
    LET fb == fallback_hourly_rain(lat, lng, safe_hours, reference_epoch)
        viaFallback == Returned(fb, CachePut(cache, key, t, fb), key, safe_hours,
                                mode, FALSE, 1, 1)
        hourly_records == extract_hourly_records(resp)
        n == Min(safe_hours, Len(hourly_records))
        bad == {i \in 1..n : RecordRaisesValueError(hourly_records[i])
                             \/ RecordRaisesOther(hourly_records[i])}
        firstBad == CHOOSE i \in bad : \A j \in bad : i <= j
    IN  IF resp.kind = "exception" THEN viaFallback                \* except Exception
        ELSE IF resp.kind = "non200" THEN viaFallback              \* status_code != 200
        ELSE IF resp.kind = "badjson"
             THEN Raised("ValueError", cache, key, safe_hours, mode, 1)  \* except ValueError: raise
        ELSE IF bad # {}
             THEN IF RecordRaisesValueError(hourly_records[firstBad])
                  THEN Raised("ValueError", cache, key, safe_hours, mode, 1)
                  ELSE viaFallback
        ELSE IF n = 0
             THEN viaFallback                                       \* if not values
        ELSE LET values == [i \in 1..n |-> RecordValue(hourly_records[i])]
                 hourly == Take(values \o Zeros(safe_hours - n), safe_hours)
             IN  Returned(hourly, CachePut(cache, key, t, hourly), key, safe_hours,
                          mode, FALSE, 1, 0)

ApiKeyMissing(k) == k = "" \/ k = "your_key_here"

\* Variant of the demo branch that does not pad short input.
DemoPathNoPad(lat, lng, safe_hours, demo_rainfall, cache, t) ==
    LET parsed == parse_demo_rainfall_values(demo_rainfall)
        demo_values == Take(parsed.values, safe_hours)
        key == hourly_cache_key(lat, lng, "demo", 0, demo_values)
    IN  IF ~parsed.ok
        THEN Raised("ValueError", cache, NoKey, safe_hours, "demo", 0)
        ELSE Returned(demo_values, CachePut(cache, key, t, demo_values), key,
                      safe_hours, "demo", FALSE, 0, 0)

\* get_hourly_rain, lines 219-235: demo mode.
DemoPath(lat, lng, safe_hours, demo_rainfall, cache, t) ==
    LET parsed == parse_demo_rainfall_values(demo_rainfall)
        padded == IF Len(parsed.values) < safe_hours
                  THEN parsed.values \o Zeros(safe_hours - Len(parsed.values))
                  ELSE parsed.values
        demo_values == Take(padded, safe_hours)
        key == hourly_cache_key(lat, lng, "demo", 0, demo_values)
    IN  IF ~parsed.ok
        THEN Raised("ValueError", cache, NoKey, safe_hours, "demo", 0)
        ELSE IF key \in DOMAIN cache /\ CacheServes(cache[key], t, safe_hours)
        THEN Returned(Take(cache[key].values, safe_hours), cache, key, safe_hours,
                      "demo", TRUE, 0, 0)
        ELSE Returned(demo_values, CachePut(cache, key, t, demo_values), key,
                      safe_hours, "demo", FALSE, 0, 0)

\* get_hourly_rain, lines 237-251 and on: live and historical mode.
LivePath(lat, lng, safe_hours, mode, reference_time, resp, cache, t, apikey) ==
    LET is_historical == mode = "historical"
        parsed == parse_reference_time(reference_time)
        reference_epoch == IF is_historical THEN parsed.epoch ELSE 0
        keymode == IF is_historical THEN "historical" ELSE "live"
        key == hourly_cache_key(lat, lng, keymode, reference_epoch, <<>>)
        fb == fallback_hourly_rain(lat, lng, safe_hours, reference_epoch)
    IN  IF is_historical /\ ~parsed.ok
        THEN Raised("ValueError", cache, NoKey, safe_hours, keymode, 0)
        ELSE IF key \in DOMAIN cache /\ CacheServes(cache[key], t, safe_hours)
        THEN Returned(Take(cache[key].values, safe_hours), cache, key, safe_hours,
                      keymode, TRUE, 0, 0)
        ELSE IF ApiKeyMissing(apikey)
        THEN Returned(fb, CachePut(cache, key, t, fb), key, safe_hours, keymode,
                      FALSE, 0, 1)
        ELSE ProviderPath(lat, lng, safe_hours, keymode, reference_epoch, key,
                          resp, cache, t)

\* get_hourly_rain(lat, lng, hours, weather_mode, reference_time, demo_rainfall)
\* run against cache `cache` at time t, the provider answering `resp` if asked.
get_hourly_rain(lat, lng, hours, weather_mode, reference_time, demo_rainfall, resp, cache, t, apikey) ==
    LET safe_hours == SafeHours(hours)
        mode == NormalizeMode(weather_mode)
    IN  IF mode = "demo"
        THEN DemoPath(lat, lng, safe_hours, demo_rainfall, cache, t)
        ELSE LivePath(lat, lng, safe_hours, mode, reference_time, resp, cache, t,
                      apikey)

\* get_hourly_rain_sum: round(sum(...), 1), in tenths; [ok, sum, call].
get_hourly_rain_sum(lat, lng, hours, weather_mode, reference_time, demo_rainfall, resp, cache, t, apikey) ==
    LET call == get_hourly_rain(lat, lng, hours, weather_mode, reference_time,
                                demo_rainfall, resp, cache, t, apikey)
    IN  [ok |-> call.outcome = "return", sum |-> SeqSum(call.values), call |-> call]

----------------------------------------------------------------------------
(* Inputs of the model *)

\* Two latitudes (10.670001, 10.670004) that round(., 5) sends to one key.
Lats == {10670001, 10670004}
Lngs == {122950000}
HoursInputs == {0, 7}
WeatherModes == {"", "historical", "demo", " Demo "}
ApiKeys == {"", "your_key_here", "owm-key"}
HashSeeds == {5}
Ticks == {300}

NoRef == [form |-> "none", sec |-> 0]
RefTimes ==
    {NoRef, [form |-> "garbage", sec |-> 0], [form |-> "blank", sec |-> 0],
     [form |-> "int", sec |-> 1700], [form |-> "millis", sec |-> 1700]}

NoDemo == [form |-> "none", items |-> <<>>]
Num(v) == [t |-> "num", v |-> v]
Tok(t) == [t |-> t, v |-> 0]
DemoInputs ==
    {NoDemo,
     [form |-> "csv", items |-> <<Num(1026), Num(2000)>>],
     [form |-> "list", items |-> <<Num(1000), Num(-100)>>],
     [form |-> "csv", items |-> <<Num(1000), Tok("text")>>],
     [form |-> "json", items |-> <<Tok("nan")>>],
     [form |-> "list", items |-> <<Num(100), Num(100), Num(100), Num(100),
                                    Num(100), Num(100), Tok("null")>>],
     [form |-> "othertype", items |-> <<>>]}

NoResp == [kind |-> "none", records |-> <<>>]
Responses ==
    {[kind |-> k, records |-> <<>>] :
        k \in {"exception", "non200", "badjson", "notdict", "nolist"}}
    \cup {[kind |-> "hourly", records |-> <<x>>] :
            x \in {Num(126), Tok("text"), Tok("rainnotdict"), Tok("nondict")}}
    \cup {[kind |-> "hourly", records |-> <<Num(126), Tok("text")>>],
          [kind |-> "data", records |-> <<Num(126)>>]}

----------------------------------------------------------------------------
(* Graph searches (networkx) *)

\* The element of a one-element set.  In The({e(x) : x \in {v}}) the value v
\* is computed once, whatever the number of times e uses it.
The(S) == CHOOSE x \in S : TRUE

\* float("inf")
Inf == 1000000000

SetMin(S) == CHOOSE x \in S : \A y \in S : x <= y
SetMax(S) == CHOOSE x \in S : \A y \in S : x >= y

\* Edge relaxation over the steps E, a set of <<from, to, weight>>, repeated
\* until no distance changes, at most k times.
RECURSIVE Relax(_, _, _, _)
Relax(nodes, E, d, k) ==
    IF k = 0 THEN d
    ELSE The({IF relaxed = d THEN d ELSE Relax(nodes, E, relaxed, k - 1) :
                relaxed \in
                  {[v \in nodes |->
                       SetMin({d[v]} \cup
                              {d[e[1]] + e[3] :
                                  e \in {x \in E : x[2] = v /\ d[x[1]] < Inf}})]}})

\* The lengths of the shortest paths from source (Inf: unreachable), which is
\* what Dijkstra's algorithm computes for non-negative weights.
ShortestDistances(nodes, E, source) ==
    The({Relax(nodes, E, d0, Cardinality(nodes)) :
            d0 \in {[v \in nodes |-> IF v = source THEN 0 ELSE Inf]}})

\* The nodes of S in the order Dijkstra's algorithm settles them: by
\* increasing distance, nodes at equal distance in the order of their ids.
RECURSIVE OrderByDistance(_, _)
OrderByDistance(S, d) ==
    IF S = {} THEN <<>>
    ELSE LET n == CHOOSE x \in S :
                     \A y \in S : d[x] < d[y] \/ (d[x] = d[y] /\ x <= y)
         IN  <<n>> \o OrderByDistance(S \ {n}, d)

\* core/geo.py haversine_km.  Every use of it in this model compares two
\* distances from one point, so it is carried up to a monotone change of
\* scale: the squared flat-map distance, coordinates in units of 1e-3 degree.
haversine_km(lat1, lng1, lat2, lng2) ==
    LET dlat == (lat1 - lat2) \div 1000
        dlng == (lng1 - lng2) \div 1000
    IN  dlat * dlat + dlng * dlng

----------------------------------------------------------------------------
(* risk/upstream.py *)

FLOW_SPEED_MPS == 1
DECAY_DISTANCE_M == 20000

\* A river graph is [kind, nodes, coord, edges]: nodes a set of ids, coord[n]
\* the lat/lng attributes of node n (has = FALSE: one of them is missing),
\* edges a set of <<u, v, length_m>>, at most one per ordered pair (DiGraph).
\* kind "none" is Python's None, "notgraph" an object that is no graph.
NoneGraph == [kind |-> "none", nodes |-> {}, coord |-> <<>>, edges |-> {}]

\* The body of _load_river_graph: the file as found on disk, read with
\* nx.read_gpickle and, should that raise, with pickle.load.  read_gpickle
\* returns whatever the pickle holds; where networkx has no read_gpickle the
\* call raises and pickle.load's result is kept only if it is a graph.
read_river_graph(file, gp) ==
    CASE file.kind = "missing" -> NoneGraph
      [] file.kind = "unreadable" -> NoneGraph
      [] file.kind = "notgraph" -> IF gp THEN file ELSE NoneGraph
      [] OTHER -> file

\* _load_river_graph under lru_cache(maxsize=1): the first result is kept.
load_river_graph(file, gp, memo) ==
    IF memo.set THEN memo ELSE [set |-> TRUE, value |-> read_river_graph(file, gp)]

\* None, as a node id
NoNode == 0

\* Variant of nearest_river_node_id that does not skip nodes without coordinates.
nearest_river_node_id_any(graph, lat, lng) ==
    IF graph.nodes = {} THEN NoNode ELSE SetMin(graph.nodes)

\* nearest_river_node_id: the first node, in node order, at the least
\* distance among the nodes that have both coordinates.
nearest_river_node_id(graph, lat, lng) ==
    LET located == {n \in graph.nodes : graph.coord[n].has}
        dist(n) == haversine_km(lat, lng, graph.coord[n].lat, graph.coord[n].lng)
    IN  IF located = {} THEN NoNode
        ELSE CHOOSE n \in located :
                \A m \in located : dist(n) < dist(m) \/ (dist(n) = dist(m) /\ n <= m)

\* The reach of twice the horizon
travel_distance_doubled(horizon_hours) ==
    2 * clamp(horizon_hours, MinHours, MaxHours) * 3600 * FLOW_SPEED_MPS

travel_distance_to_max(horizon_hours) ==
    clamp(horizon_hours, MinHours, MaxHours) * 3600 * FLOW_SPEED_MPS

\* None, as expected_peak_in_hours
NonePeak == -1

\* The summary of lines 65-73 and 77-85.  Units of a summary: indexes in
\* thousandths, distances in metres, expected_peak_in_hours in hundredths.
ZeroSummary(horizon_hours) ==
    [upstream_rain_index |-> 0, upstream_rain_index_norm |-> 0,
     upstream_nodes_used |-> 0, max_upstream_distance_m |-> 0,
     dominant_upstream_points |-> <<>>, expected_peak_in_hours |-> NonePeak,
     max_distance_m |-> travel_distance_to_max(horizon_hours)]

\* math.exp(-x) in units of 1e-5 for x in units of 1e-4, 0 <= x <= 1.08, by
\* the first eight terms of the series.
RECURSIVE ExpSeries(_, _)
ExpSeries(x4, k) ==
    IF k > 8 THEN 100000
    ELSE 100000 - (x4 * ExpSeries(x4, k + 1)) \div (k * 10000)

\* weight = math.exp(-distance / DECAY_DISTANCE_M), in units of 1e-5
DecayWeight(distance_m) == ExpSeries((distance_m * 10000) \div DECAY_DISTANCE_M, 1)

\* round(x, 3) of a value in millionths, in thousandths
Round3(micro) == (micro + 500) \div 1000

\* Variant of ReversedEdges that leaves the edges in their direction.
SameEdges(edges) == edges

\* The steps of river_graph.reverse(), weighted by length_m
ReversedEdges(edges) == {<<e[2], e[1], e[3]>> : e \in edges}

\* Variant of reverse_view that turns the edges of the graph itself around.
reverse_in_place(graph) ==
    [graph |-> [graph EXCEPT !.edges = ReversedEdges(graph.edges)],
     steps |-> ReversedEdges(graph.edges)]

\* river_graph.reverse(copy=False): a view of the graph.  steps: the steps
\* the search walks; graph: the graph object after the call, which a view
\* leaves as it is.
reverse_view(graph) == [graph |-> graph, steps |-> ReversedEdges(graph.edges)]

\* Lines 97-118: one turn of the loop over the reached nodes.  acc is
\* [ok, exc, payload, total, cache, requests], total in millionths of a
\* millimetre; resp is the provider's answer should the request reach it.
UpstreamVisit(graph, node_id, distance_m, horizon_hours, resp, acc, t, apikey) ==
    IF ~graph.coord[node_id].has THEN acc
    ELSE The({IF ~rain.ok
              THEN [acc EXCEPT !.ok = FALSE, !.exc = rain.call.exc,
                               !.cache = rain.call.cache,
                               !.requests = acc.requests + 1]
              ELSE [acc EXCEPT !.payload =
                                   Append(acc.payload,
                                          [node_id |-> node_id,
                                           lat |-> graph.coord[node_id].lat,
                                           lng |-> graph.coord[node_id].lng,
                                           distance_m |-> distance_m,
                                           rain_sum |-> rain.sum,
                                           weighted_signal |->
                                               Round3(rain.sum * DecayWeight(distance_m))]),
                               !.total = acc.total + rain.sum * DecayWeight(distance_m),
                               !.cache = rain.call.cache,
                               !.requests = acc.requests + 1] :
                rain \in {get_hourly_rain_sum(graph.coord[node_id].lat,
                                              graph.coord[node_id].lng, horizon_hours,
                                              "live", NoRef, NoDemo, resp, acc.cache,
                                              t, apikey)}})

\* Lines 96-118: the loop.  A request that raises ends it.
RECURSIVE UpstreamScan(_, _, _, _, _, _, _, _)
UpstreamScan(graph, order, d, horizon_hours, resps, acc, t, apikey) ==
    IF order = <<>> \/ ~acc.ok THEN acc
    ELSE The({UpstreamScan(graph, Tail(order), d, horizon_hours, resps, next, t, apikey) :
                next \in {UpstreamVisit(graph, Head(order), d[Head(order)],
                                        horizon_hours, resps[acc.requests + 1], acc,
                                        t, apikey)}})

\* Variant of InsertBySignal that keeps the payload in the order of the loop.
InsertAtEnd(sorted, p) == Append(sorted, p)

\* dominant_payload.sort(key=weighted_signal, reverse=True): descending, equal
\* keys in their original order.
RECURSIVE InsertBySignal(_, _)
InsertBySignal(sorted, p) ==
    IF sorted = <<>> THEN <<p>>
    ELSE IF Head(sorted).weighted_signal >= p.weighted_signal
    THEN <<Head(sorted)>> \o InsertBySignal(Tail(sorted), p)
    ELSE <<p>> \o sorted

RECURSIVE SortBySignal(_)
SortBySignal(s) ==
    IF s = <<>> THEN <<>>
    ELSE InsertBySignal(SortBySignal(SubSeq(s, 1, Len(s) - 1)), s[Len(s)])

\* upstream_nodes: the dict of lines 88-91, node -> distance, empty where the
\* call ended before the search; dominant_payload: the list of lines 94-120
\* once sorted.
UpstreamResult(outcome, exc, summary, requests, cache, memo) ==
    [outcome |-> outcome, exc |-> exc, summary |-> summary,
     rain_requests |-> requests, cache |-> cache, memo |-> memo,
     upstream_nodes |-> <<>>, dominant_payload |-> <<>>]

\* Lines 133 and 137: clamp((total_weighted / 200.0) * 100.0, 0.0, 100.0)
\* rounded to 3 places, in thousandths; total_weighted in millionths.
upstream_rain_index_norm(total_weighted) ==
    clamp((total_weighted + 1000) \div 2000, 0, 100000)

\* Lines 120-143: the summary of a finished scan over the nodes `reached`.
UpstreamSummary(scan, dominant_payload, reached, d, max_distance_m) ==
    [upstream_rain_index |-> Round3(scan.total),
     upstream_rain_index_norm |-> upstream_rain_index_norm(scan.total),
     upstream_nodes_used |-> Cardinality(reached),
     max_upstream_distance_m |-> SetMax({d[n] : n \in reached}),
     dominant_upstream_points |-> Take(dominant_payload, 3),
     expected_peak_in_hours |->
         IF dominant_payload = <<>> THEN NonePeak
         ELSE (dominant_payload[1].distance_m * 100 + 1800) \div (FLOW_SPEED_MPS * 3600),
     max_distance_m |-> max_distance_m]

\* Lines 92-143: the rainfall scan over the nodes within reach, at the
\* distances d, and the summary; memo is what _load_river_graph holds now.
UpstreamWithin(memo, d, hh, resps, cache, t, apikey) ==
    The({[(IF ~scan.ok
           THEN UpstreamResult("raise", scan.exc, ZeroSummary(hh), scan.requests,
                               scan.cache, memo)
           ELSE UpstreamResult("return", "",
                    UpstreamSummary(scan, SortBySignal(scan.payload),
                        {n \in memo.value.nodes : d[n] <= travel_distance_to_max(hh)},
                        d, travel_distance_to_max(hh)),
                    scan.requests, scan.cache, memo))
            EXCEPT !.upstream_nodes =
                       [n \in {m \in memo.value.nodes :
                                  d[m] <= travel_distance_to_max(hh)} |-> d[n]],
                   !.dominant_payload =
                       IF scan.ok THEN SortBySignal(scan.payload) ELSE <<>>] :
            scan \in {UpstreamScan(memo.value,
                          OrderByDistance({n \in memo.value.nodes :
                                              d[n] <= travel_distance_to_max(hh)}, d),
                          d, hh, resps,
                          [ok |-> TRUE, exc |-> "", payload |-> <<>>, total |-> 0,
                           cache |-> cache, requests |-> 0],
                          t, apikey)}})

\* Lines 87-143: the search upstream of `source` and the rainfall scan.
UpstreamFrom(loaded, source, hh, resps, cache, t, apikey) ==
    The({The({UpstreamWithin([loaded EXCEPT !.value = reversed.graph], d, hh, resps,
                             cache, t, apikey) :
                d \in {ShortestDistances(reversed.graph.nodes, reversed.steps, source)}}) :
            reversed \in {reverse_view(loaded.value)}})

\* Lines 64-85: the graph as loaded, and the node nearest to the point.
UpstreamOver(loaded, lat, lng, hh, resps, cache, t, apikey) ==
    IF loaded.value.kind = "none"
    THEN UpstreamResult("return", "", ZeroSummary(hh), 0, cache, loaded)
    ELSE IF loaded.value.kind = "notgraph"      \* no number_of_nodes()
    THEN UpstreamResult("raise", "AttributeError", ZeroSummary(hh), 0, cache, loaded)
    ELSE IF loaded.value.nodes = {}
    THEN UpstreamResult("return", "", ZeroSummary(hh), 0, cache, loaded)
    ELSE The({IF source = NoNode
              THEN UpstreamResult("return", "", ZeroSummary(hh), 0, cache, loaded)
              ELSE UpstreamFrom(loaded, source, hh, resps, cache, t, apikey) :
                source \in {nearest_river_node_id(loaded.value, lat, lng)}})

\* compute_upstream_rain_index(lat, lng, horizon_hours) run against the
\* cache at time t, the provider answering request i with resps[i].
compute_upstream_rain_index(lat, lng, horizon_hours, resps, cache, t, apikey, file, gp, memo) ==
    The({UpstreamOver(loaded, lat, lng, clamp(horizon_hours, MinHours, MaxHours),
                      resps, cache, t, apikey) :
            loaded \in {load_river_graph(file, gp, memo)}})

\* The parameters of compute_upstream_rain_index, and Python's binding of a
\* call's arguments to them: a keyword that names no parameter is a TypeError,
\* raised before the body runs.
UpstreamParameters == {"lat", "lng", "horizon_hours"}

call_compute_upstream_rain_index(arguments, lat, lng, horizon_hours, resps, cache, t, apikey, file, gp, memo) ==
    IF ~(arguments \subseteq UpstreamParameters)
    THEN UpstreamResult("raise", "TypeError", ZeroSummary(1), 0, cache, memo)
    ELSE compute_upstream_rain_index(lat, lng, horizon_hours, resps, cache, t,
                                     apikey, file, gp, memo)

----------------------------------------------------------------------------
(* risk/risk_engine.py *)

\* geodata is what the terrain sources answer for the area of the model:
\*   dem, remote   the elevation (m) the DEM raster and the elevation service
\*                 give; Unavailable where the source is missing or fails
\*   simulated     _simulate_elevation_m
\*   river         "union": the river geometry is loaded, "points": the
\*                 sample-point file is used, "corrupt": that file is no JSON
\*                 object, "none": neither exists
\*   river_m       the distance (m) to the nearest river by that source
\*   proxy_m       the distance (m) to the nearest road node, used as a river
\*                 stand-in when there is no river data but a road graph
\*   flood_zones   "missing", "corrupt", or where the point lies:
\*                 "inside", "near" (< 1 km), "mid" (< 4 km), "far"
Unavailable == -1

\* get_forecast_rainfall_sum_mm
get_forecast_rainfall_sum_mm(lat, lng, hours, weather_mode, reference_time, demo_rainfall, resp, cache, t, apikey) ==
    get_hourly_rain_sum(lat, lng, SafeHours(hours), weather_mode, reference_time,
                        demo_rainfall, resp, cache, t, apikey)

\* get_elevation_meters: raster, then service if allowed, then simulation
get_elevation_meters(geo, allow_remote_lookup) ==
    IF geo.dem # Unavailable THEN clamp(geo.dem, 0, 5000)
    ELSE IF allow_remote_lookup /\ geo.remote # Unavailable THEN clamp(geo.remote, 0, 5000)
    ELSE clamp(geo.simulated, 2, 180)

\* estimate_flood_depth_m with the rain signal clamped to 3.6
estimate_flood_depth_deep(local_rain_mm, upstream_norm, elevation_m) ==
    LET rain_signal == clamp(local_rain_mm, 0, 4320)
        upstream_signal == clamp(upstream_norm, 0, 1000)
        elevation_scale == clamp(600 - 2 * elevation_m, 125, 500)
    IN  clamp(((275 * rain_signal + 168 * upstream_signal) * elevation_scale + 1500000)
                 \div 3000000, 0, 300)

\* estimate_flood_depth_m, in hundredths of a metre: local_rain_mm in tenths
\* of a millimetre, upstream_norm in tenths, elevation_m in metres.
\* rain_signal is held in 1/1200, upstream_signal / 0.8 in 1/1000 and
\* elevation_scale in 1/500, so that
\*   0.55 rain_signal + 0.35 upstream_signal = (275 r + 168 u) / 600000.
estimate_flood_depth_m(local_rain_mm, upstream_norm, elevation_m) ==
    LET rain_signal == clamp(local_rain_mm, 0, 2160)
        upstream_signal == clamp(upstream_norm, 0, 1000)
        elevation_scale == clamp(600 - 2 * elevation_m, 125, 500)
    IN  clamp(((275 * rain_signal + 168 * upstream_signal) * elevation_scale + 1500000)
                 \div 3000000, 0, 300)

\* classify_flood_depth(level_m), level_m in hundredths of a metre
classify_flood_depth(level_m) ==
    IF level_m >= 200 THEN "2-storey-height"
    ELSE IF level_m >= 100 THEN "above-head"
    ELSE IF level_m >= 50 THEN "chest"
    ELSE IF level_m >= 20 THEN "knee"
    ELSE "shallow"

elevation_factor(elevation_m) ==
    IF elevation_m < 20 THEN 100 ELSE IF elevation_m < 50 THEN 65 ELSE 35

\* distance_to_nearest_river_km, in metres: [ok, exc, m]
distance_to_nearest_river_km(geo, road) ==
    CASE geo.river = "union" -> [ok |-> TRUE, exc |-> "", m |-> clamp(geo.river_m, 0, 999000)]
      [] geo.river = "points" -> [ok |-> TRUE, exc |-> "", m |-> geo.river_m]
      [] geo.river = "corrupt" -> [ok |-> FALSE, exc |-> "ValueError", m |-> 0]
      [] OTHER -> [ok |-> TRUE, exc |-> "",
                   m |-> IF road.kind = "graph" /\ road.nodes # {}
                         THEN geo.proxy_m ELSE 999000]

\* river_proximity_factor, in thousandths
river_proximity_factor(distance_m) ==
    IF distance_m <= 50 THEN 100000
    ELSE IF distance_m >= 20000 THEN 0
    ELSE clamp(((20000 - distance_m) * 100000) \div 19950, 0, 100000)

\* historical_flood_factor: [ok, exc, factor, in_flood_zone]
historical_flood_factor(geo) ==
    CASE geo.flood_zones = "corrupt" ->
            [ok |-> FALSE, exc |-> "ValueError", factor |-> 0, in_flood_zone |-> FALSE]
      [] geo.flood_zones = "inside" ->
            [ok |-> TRUE, exc |-> "", factor |-> 100, in_flood_zone |-> TRUE]
      [] geo.flood_zones = "near" ->
            [ok |-> TRUE, exc |-> "", factor |-> 60, in_flood_zone |-> FALSE]
      [] geo.flood_zones = "mid" ->
            [ok |-> TRUE, exc |-> "", factor |-> 30, in_flood_zone |-> FALSE]
      [] geo.flood_zones = "far" ->
            [ok |-> TRUE, exc |-> "", factor |-> 8, in_flood_zone |-> FALSE]
      [] OTHER ->
            [ok |-> TRUE, exc |-> "", factor |-> 0, in_flood_zone |-> FALSE]

\* Variant of classify_risk whose upper threshold is exclusive.
classify_risk_strict(score) ==
    IF score > 65 THEN "HIGH" ELSE IF score >= 35 THEN "MEDIUM" ELSE "LOW"

classify_risk(score) ==
    IF score >= 65 THEN "HIGH" ELSE IF score >= 35 THEN "MEDIUM" ELSE "LOW"

\* round(x) of x = n / unit: to the nearest integer, a tie to the even one
RoundHalfEven(n, unit) ==
    LET q == n \div unit
        r == n % unit
    IN  IF 2 * r < unit THEN q
        ELSE IF 2 * r > unit THEN q + 1
        ELSE IF q % 2 = 0 THEN q ELSE q + 1

\* The keyword arguments estimate_flood_risk passes to
\* compute_upstream_rain_index at lines 293-301.
RiskUpstreamArguments ==
    {"lat", "lng", "horizon_hours", "weather_mode", "reference_time",
     "demo_rainfall", "demo_upstream_rainfall"}

RiskResult(outcome, exc, score, upstream, rain, cache, memo) ==
    [outcome |-> outcome, exc |-> exc, risk_score |-> score,
     risk_level |-> classify_risk(score),
     expected_peak_in_hours |-> upstream.summary.expected_peak_in_hours,
     upstream_summary |-> upstream.summary,
     rain_requests |-> upstream.rain_requests,
     rain |-> [rain EXCEPT !.cache = <<>>], cache |-> cache, memo |-> memo]

\* Variant of risk_score without the clamp of line 311.
risk_score_unclamped(local_rain_3h, upstream_norm, river_factor, elev_factor, hist_factor) ==
    RoundHalfEven(local_rain_3h * 3500 + upstream_norm * 35 + river_factor * 15
                     + elev_factor * 10000 + hist_factor * 5000,
                  100000)

\* Lines 304-311: raw_score, in units of 1e-5, and risk_score.  Rainfall in
\* tenths of a millimetre, upstream_norm and river_factor in thousandths.
risk_score(local_rain_3h, upstream_norm, river_factor, elev_factor, hist_factor) ==
    RoundHalfEven(
        clamp(local_rain_3h * 3500 + upstream_norm * 35 + river_factor * 15
                 + elev_factor * 10000 + hist_factor * 5000,
              0, 10000000),
        100000)

\* A line of the explanation: its wording and the two numbers set into it.
Line(text, a, b) == [text |-> text, a |-> a, b |-> b]

\* Variant of explanation that appends the high-risk line before the
\* flood-zone line.
explanation_high_first(safe_hours, local_rain_3h, elevation_m, river_distance, upstream, hist, risk_level) ==
    <<Line("Rainfall next", safe_hours, local_rain_3h),
      Line("Elevation", elevation_m, 0),
      Line("Distance to nearest river", river_distance, 0),
      Line("Upstream risk index", upstream.upstream_rain_index,
           upstream.upstream_rain_index_norm)>>
    \o (IF upstream.dominant_upstream_points # <<>>
        THEN <<Line("Heavy rainfall detected upstream in watershed",
                    upstream.dominant_upstream_points[1].rain_sum, 0)>>
        ELSE <<>>)
    \o (IF risk_level = "HIGH"
        THEN <<Line("High flood risk conditions detected", 0, 0)>> ELSE <<>>)
    \o (IF hist.in_flood_zone THEN <<Line("Inside historical flood zone", 0, 0)>>
        ELSE IF hist.factor >= 30 THEN <<Line("Near historical flood zone", 0, 0)>>
        ELSE <<>>)

\* Lines 315-337: the explanation list.
explanation(safe_hours, local_rain_3h, elevation_m, river_distance, upstream, hist, risk_level) ==
    <<Line("Rainfall next", safe_hours, local_rain_3h),
      Line("Elevation", elevation_m, 0),
      Line("Distance to nearest river", river_distance, 0),
      Line("Upstream risk index", upstream.upstream_rain_index,
           upstream.upstream_rain_index_norm)>>
    \o (IF upstream.dominant_upstream_points # <<>>
        THEN <<Line("Heavy rainfall detected upstream in watershed",
                    upstream.dominant_upstream_points[1].rain_sum, 0)>>
        ELSE <<>>)
    \o (IF hist.in_flood_zone THEN <<Line("Inside historical flood zone", 0, 0)>>
        ELSE IF hist.factor >= 30 THEN <<Line("Near historical flood zone", 0, 0)>>
        ELSE <<>>)
    \o (IF risk_level = "HIGH"
        THEN <<Line("High flood risk conditions detected", 0, 0)>> ELSE <<>>)

\* Lines 302-347: the assessment computed from the rainfall sum, the
\* elevation, the river distance (m), the flood-zone answer and the upstream
\* summary.
risk_assessment(safe_hours, local_rain_3h, elevation_m, river_distance, hist, upstream) ==
    The({[risk_score |-> score,
          risk_level |-> classify_risk(score),
          expected_peak_in_hours |-> upstream.expected_peak_in_hours,
          explanation |-> explanation(safe_hours, local_rain_3h, elevation_m,
                                      river_distance, upstream, hist,
                                      classify_risk(score)),
          upstream_summary |-> upstream] :
            score \in {risk_score(local_rain_3h, upstream.upstream_rain_index_norm,
                                  river_proximity_factor(river_distance),
                                  elevation_factor(elevation_m), hist.factor)}})

\* Lines 287-347: what follows the local rainfall request.
RiskAfterRain(local_rain_3h, lat, lng, safe_hours, resps, t, apikey, geo, road, file, gp, memo) ==
    LET elevation_m == get_elevation_meters(geo, TRUE)
        elev_factor == elevation_factor(elevation_m)
        river_distance == distance_to_nearest_river_km(geo, road)
        river_factor == river_proximity_factor(river_distance.m)
        hist == historical_flood_factor(geo)
        none == UpstreamResult("raise", "", ZeroSummary(safe_hours), 0,
                               local_rain_3h.call.cache, memo)
    IN  IF ~local_rain_3h.ok
        THEN RiskResult("raise", local_rain_3h.call.exc, 0, none, local_rain_3h.call,
                        local_rain_3h.call.cache, memo)
        ELSE IF ~river_distance.ok
        THEN RiskResult("raise", river_distance.exc, 0, none, local_rain_3h.call,
                        local_rain_3h.call.cache, memo)
        ELSE IF ~hist.ok
        THEN RiskResult("raise", hist.exc, 0, none, local_rain_3h.call,
                        local_rain_3h.call.cache, memo)
        ELSE The({IF upstream.outcome = "raise"
                  THEN RiskResult("raise", upstream.exc, 0, upstream,
                                  local_rain_3h.call, upstream.cache, upstream.memo)
                  ELSE RiskResult("return", "",
                           risk_assessment(safe_hours, local_rain_3h.sum, elevation_m,
                                           river_distance.m, hist,
                                           upstream.summary).risk_score,
                           upstream, local_rain_3h.call, upstream.cache, upstream.memo) :
                    upstream \in
                      {call_compute_upstream_rain_index(RiskUpstreamArguments, lat, lng,
                           safe_hours, resps, local_rain_3h.call.cache, t, apikey,
                           file, gp, memo)}})

\* estimate_flood_risk(lat, lng, hours, weather_mode, reference_time,
\* demo_rainfall, demo_upstream_rainfall); resp answers the local rainfall
\* request, resps the upstream ones.
estimate_flood_risk(lat, lng, hours, weather_mode, reference_time, demo_rainfall, resp, resps, cache, t, apikey, geo, road, file, gp, memo) ==
    The({RiskAfterRain(local_rain_3h, lat, lng, clamp(hours, MinHours, MaxHours),
                       resps, t, apikey, geo, road, file, gp, memo) :
            local_rain_3h \in
              {get_forecast_rainfall_sum_mm(lat, lng, clamp(hours, MinHours, MaxHours),
                   weather_mode, reference_time, demo_rainfall, resp, cache, t,
                   apikey)}})

----------------------------------------------------------------------------
(* routing/routing_engine.py *)

SAFETY_HUB_RADIUS_METERS == 5000

\* A road graph is [kind, nodes, xy, edges]: xy[n] the y (lat) and x (lng) of
\* node n; edges a set of [u, v, key, length, hazard_score, elevation_m,
\* river_m] (MultiDiGraph: parallel edges differ in key).  length is in
\* metres; hazard_score is the attribute as loaded, in thousandths, NoHazard
\* where the edge has none; elevation_m and river_m are what
\* get_elevation_meters(allow_remote_lookup=False) and
\* distance_to_nearest_river_km answer at the edge's midpoint.
NoHazard == -1

\* load_graph under lru_cache(maxsize=1): [ok, exc, memo, ran].  An exception
\* is not cached.  ran: the call ran _load_negros_graph.
load_graph(road, memo) ==
    IF memo.set THEN [ok |-> TRUE, exc |-> "", memo |-> memo, ran |-> FALSE]
    ELSE IF road.kind = "missing"
    THEN [ok |-> FALSE, exc |-> "FileNotFoundError", memo |-> memo, ran |-> TRUE]
    ELSE [ok |-> TRUE, exc |-> "", memo |-> [set |-> TRUE, value |-> road],
          ran |-> TRUE]

\* nearest_node_id: the node at the least distance from (lat, lng), the first
\* such in node order; NoNode stands for the ValueError of an empty graph.
nearest_node_id(graph, lat, lng) ==
    LET dist(n) == haversine_km(lat, lng, graph.xy[n].lat, graph.xy[n].lng)
    IN  IF graph.nodes = {} THEN NoNode
        ELSE CHOOSE n \in graph.nodes :
                \A m \in graph.nodes : dist(n) < dist(m) \/ (dist(n) = dist(m) /\ n <= m)

\* The steps of graph.to_undirected(), weighted by length
UndirectedEdges(edges) ==
    {<<e.u, e.v, e.length>> : e \in edges} \cup {<<e.v, e.u, e.length>> : e \in edges}

\* nx.ego_graph(graph.to_undirected(), center, radius, distance="length")
ego_graph(graph, center) ==
    The({{n \in graph.nodes : d[n] <= SAFETY_HUB_RADIUS_METERS} :
            d \in {ShortestDistances(graph.nodes, UndirectedEdges(graph.edges), center)}})

\* Lines 65-68 of extract_local_graph, for the node set `base`
LocalGraph(graph, base, destination) ==
    IF destination \notin base
    THEN [nodes |-> graph.nodes, edges |-> graph.edges, directed |-> FALSE]
    ELSE [nodes |-> base,
          edges |-> {e \in graph.edges : e.u \in base /\ e.v \in base},
          directed |-> TRUE]

\* extract_local_graph: [nodes, edges, directed]
extract_local_graph(graph, origin, destination) ==
    The({The({LocalGraph(graph, base, destination) :
                base \in {IF destination \notin around_origin
                          THEN around_origin \cup ego_graph(graph, destination)
                          ELSE around_origin}}) :
            around_origin \in {ego_graph(graph, origin)}})

\* Lines 84-108 with 8.0 in place of the 4.0 of line 100
EdgeHazardSteep(e, rainfall_next_3h, upstream_risk_norm) ==
    LET low == IF e.elevation_m < 20 THEN 2000 ELSE 0
        river == IF e.river_m <= 250 THEN 2000 + (upstream_risk_norm * 8) \div 100
                 ELSE IF e.river_m <= 750 THEN (upstream_risk_norm * 2) \div 100
                 ELSE 0
        rain == IF rainfall_next_3h > 300 THEN 1000 ELSE 0
    IN  clamp(low + river + rain, 0, 100000)

\* The hazard computed for one edge at lines 84-108, in thousandths;
\* rainfall in tenths of a millimetre, upstream_risk_norm in thousandths.
EdgeHazard(e, rainfall_next_3h, upstream_risk_norm) ==
    LET low == IF e.elevation_m < 20 THEN 2000 ELSE 0
        river == IF e.river_m <= 250 THEN 2000 + (upstream_risk_norm * 4) \div 100
                 ELSE IF e.river_m <= 750 THEN (upstream_risk_norm * 2) \div 100
                 ELSE 0
        rain == IF rainfall_next_3h > 300 THEN 1000 ELSE 0
    IN  clamp(low + river + rain, 0, 100000)

\* add_edge_hazard_scores: an edge that has a hazard_score keeps it.
add_edge_hazard_scores(edges, rainfall_next_3h, upstream_risk_norm) ==
    {IF e.hazard_score # NoHazard THEN e
     ELSE [e EXCEPT !.hazard_score = EdgeHazard(e, rainfall_next_3h, upstream_risk_norm)] :
        e \in edges}

\* The edges for which one call of add_edge_hazard_scores runs lines 76-108
HazardComputed(edges) == {<<e.u, e.v, e.key>> : e \in {x \in edges : x.hazard_score = NoHazard}}

\* edge_cost(start, end, data) for the attributes of one edge, in thousandths
edge_cost(data, safety_weight) == data.length * 1000 + data.hazard_score * safety_weight

\* edge_cost(start, end, data) as nx.shortest_path calls it on a multigraph:
\* data is the dict of the parallel edges, key -> attributes, which has no
\* entry "length" and no entry "hazard_score", so both defaults are taken.
edge_cost_in_search(safety_weight) == 1 * 1000 + 0 * safety_weight

\* The parallel edges a step from u to v can take in route_graph
Parallel(g, u, v) ==
    {e \in g.edges : (e.u = u /\ e.v = v) \/ (~g.directed /\ e.u = v /\ e.v = u)}

\* The simple paths from source to target in route_graph, as node sequences
SimplePaths(g, source, target) ==
    {p \in UNION {[1..k -> g.nodes] : k \in 1..Cardinality(g.nodes)} :
        /\ p[1] = source /\ p[Len(p)] = target
        /\ \A i, j \in 1..Len(p) : i # j => p[i] # p[j]
        /\ \A i \in 1..(Len(p) - 1) : Parallel(g, p[i], p[i + 1]) # {}}

\* nx.shortest_path(route_graph, source, target, weight=edge_cost): the paths
\* of least summed cost, of which the search returns one; none: NetworkXNoPath.
shortest_path(g, source, target, safety_weight) ==
    The({{p \in paths :
            \A q \in paths : (Len(p) - 1) * edge_cost_in_search(safety_weight)
                                <= (Len(q) - 1) * edge_cost_in_search(safety_weight)} :
            paths \in {SimplePaths(g, source, target)}})

\* Lines 196-200: the attributes of the cheapest of the parallel edges, the
\* one of least key among equally cheap ones.
StepAttributes(g, u, v, safety_weight) ==
    LET es == Parallel(g, u, v)
    IN  CHOOSE e \in es :
           \A f \in es : \/ edge_cost(e, safety_weight) < edge_cost(f, safety_weight)
                         \/ /\ edge_cost(e, safety_weight) = edge_cost(f, safety_weight)
                            /\ e.key <= f.key

RECURSIVE PathSum(_, _, _, _)
PathSum(g, path, safety_weight, field) ==
    IF Len(path) < 2 THEN 0
    ELSE LET attrs == StepAttributes(g, path[1], path[2], safety_weight)
         IN  (IF field = "length" THEN attrs.length ELSE attrs.hazard_score)
                + PathSum(g, Tail(path), safety_weight, field)

\* The keyword arguments compute_safe_route passes to
\* compute_upstream_rain_index at lines 136-143.
RouteUpstreamArguments ==
    {"lat", "lng", "horizon_hours", "weather_mode", "reference_time", "demo_rainfall"}

NoRouteGraph == [nodes |-> {}, edges |-> {}, directed |-> FALSE]

RouteRaised(exc, searches, origin_node, dest_node, rain, cache, gmemo, rmemo) ==
    [outcome |-> "raise", exc |-> exc, searches |-> searches, path |-> <<>>,
     route |-> <<>>, total_distance |-> 0, hazard_exposure |-> 0,
     origin_node |-> origin_node, destination_node |-> dest_node,
     route_graph |-> NoRouteGraph, search_cost |-> 0, hazard_computed |-> <<>>,
     rain |-> [rain EXCEPT !.cache = <<>>], cache |-> cache,
     gmemo |-> gmemo, rmemo |-> rmemo]

\* search_cost: the summed cost of `path` as the search weighed it, in
\* thousandths.  hazard_computed: for each call of add_edge_hazard_scores the
\* call has made, in order, the edges whose hazard it computed.
RoutePlan(g, path, safety_weight, searches, origin_node, dest_node, rain, cache, gmemo, rmemo, xy) ==
    [outcome |-> "return", exc |-> "", searches |-> searches, path |-> path,
     route |-> [i \in 1..Len(path) |-> xy[path[i]]],
     total_distance |-> PathSum(g, path, safety_weight, "length"),
     hazard_exposure |-> PathSum(g, path, safety_weight, "hazard_score"),
     origin_node |-> origin_node, destination_node |-> dest_node,
     route_graph |-> g,
     search_cost |-> (Len(path) - 1) * edge_cost_in_search(safety_weight),
     hazard_computed |-> <<>>,
     rain |-> [rain EXCEPT !.cache = <<>>], cache |-> cache,
     gmemo |-> gmemo, rmemo |-> rmemo]

\* Lines 164-177: the search of the full graph, after the local search found
\* no path.
RouteFallback(full_graph, origin_node, dest_node, safety_weight, rain, upstream_summary, gmemo, xy) ==
    UNION {IF full_paths # {}
           THEN {RoutePlan(full_graph, path, safety_weight, <<"local", "full">>,
                           origin_node, dest_node, rain, upstream_summary.cache,
                           gmemo, upstream_summary.memo, xy) : path \in full_paths}
           ELSE {RouteRaised("NetworkXNoPath", <<"local", "full">>, origin_node,
                             dest_node, rain, upstream_summary.cache, gmemo,
                             upstream_summary.memo)} :
             full_paths \in {shortest_path(full_graph, origin_node, dest_node,
                                           safety_weight)}}

\* Lines 156-211: the search of the local graph, scored, and the route plan.
RouteSearch(graph, scored_local, origin_node, dest_node, safety_weight, rainfall_sample, upstream_summary, gmemo) ==
    UNION {IF local_paths # {}
           THEN {RoutePlan(scored_local, path, safety_weight, <<"local">>, origin_node,
                           dest_node, rainfall_sample.call, upstream_summary.cache,
                           gmemo, upstream_summary.memo, graph.xy) :
                    path \in local_paths}
           ELSE UNION {{[r EXCEPT !.hazard_computed =
                                            <<HazardComputed(graph.edges)>> \o @] :
                          r \in RouteFallback(full_graph, origin_node, dest_node,
                                              safety_weight, rainfall_sample.call,
                                              upstream_summary, gmemo, graph.xy)} :
                         full_graph \in
                           {[nodes |-> graph.nodes,
                             edges |-> add_edge_hazard_scores(graph.edges,
                                           rainfall_sample.sum,
                                           upstream_summary.summary.upstream_rain_index_norm),
                             directed |-> FALSE]}} :
             local_paths \in {shortest_path(scored_local, origin_node, dest_node,
                                            safety_weight)}}

\* Lines 136-149: the upstream summary and the hazard scores of the local graph.
RouteAfterRain(graph, local_graph, origin_node, dest_node, rainfall_sample, origin_lat, origin_lng, safety_weight, safe_hours, resps, t, apikey, gmemo, file, gp, rmemo) ==
    UNION {IF upstream_summary.outcome = "raise"
           THEN {RouteRaised(upstream_summary.exc, <<>>, origin_node, dest_node,
                             rainfall_sample.call, upstream_summary.cache, gmemo,
                             upstream_summary.memo)}
           ELSE UNION {{[r EXCEPT !.hazard_computed =
                                            <<HazardComputed(local_graph.edges)>> \o @] :
                          r \in RouteSearch(graph, scored_local, origin_node, dest_node,
                                            safety_weight, rainfall_sample,
                                            upstream_summary, gmemo)} :
                         scored_local \in
                           {[local_graph EXCEPT
                               !.edges = add_edge_hazard_scores(local_graph.edges,
                                             rainfall_sample.sum,
                                             upstream_summary.summary.upstream_rain_index_norm)]}} :
             upstream_summary \in
               {call_compute_upstream_rain_index(RouteUpstreamArguments, origin_lat,
                    origin_lng, safe_hours, resps, rainfall_sample.call.cache, t,
                    apikey, file, gp, rmemo)}}

\* Lines 127-135: the local graph and the rainfall sample for the origin.
RouteBetween(graph, origin_node, dest_node, origin_lat, origin_lng, safety_weight, safe_hours, weather_mode, reference_time, demo_rainfall, resp, resps, cache, t, apikey, gmemo, file, gp, rmemo) ==
    UNION {IF ~rainfall_sample.ok
           THEN {RouteRaised(rainfall_sample.call.exc, <<>>, origin_node, dest_node,
                             rainfall_sample.call, rainfall_sample.call.cache, gmemo,
                             rmemo)}
           ELSE RouteAfterRain(graph, local_graph, origin_node, dest_node,
                               rainfall_sample, origin_lat, origin_lng, safety_weight,
                               safe_hours, resps, t, apikey, gmemo, file, gp, rmemo) :
             local_graph \in {extract_local_graph(graph, origin_node, dest_node)},
             rainfall_sample \in
               {get_forecast_rainfall_sum_mm(origin_lat, origin_lng, safe_hours,
                    weather_mode, reference_time, demo_rainfall, resp, cache, t,
                    apikey)}}

\* Lines 124-125: the nodes nearest to the two points.
RouteOnGraph(graph, origin_lat, origin_lng, dest_lat, dest_lng, safety_weight, safe_hours, weather_mode, reference_time, demo_rainfall, resp, resps, cache, t, apikey, gmemo, file, gp, rmemo) ==
    UNION {IF origin_node = NoNode
           THEN {RouteRaised("ValueError", <<>>, NoNode, NoNode,
                             Raised("", cache, NoKey, 0, "", 0), cache, gmemo, rmemo)}
           ELSE RouteBetween(graph, origin_node, dest_node, origin_lat, origin_lng,
                             safety_weight, safe_hours, weather_mode, reference_time,
                             demo_rainfall, resp, resps, cache, t, apikey, gmemo,
                             file, gp, rmemo) :
             origin_node \in {nearest_node_id(graph, origin_lat, origin_lng)},
             dest_node \in {nearest_node_id(graph, dest_lat, dest_lng)}}

\* compute_safe_route(origin_lat, origin_lng, dest_lat, dest_lng,
\* safety_weight, hours, weather_mode, reference_time, demo_rainfall): the set
\* of outcomes the call can have.  Two outcomes of one call differ only in
\* which of several equally cheap paths the search returned.
compute_safe_route(origin_lat, origin_lng, dest_lat, dest_lng, safety_weight, hours, weather_mode, reference_time, demo_rainfall, resp, resps, cache, t, apikey, road, gmemo, file, gp, rmemo) ==
    UNION {IF ~loaded.ok
           THEN {RouteRaised(loaded.exc, <<>>, NoNode, NoNode,
                             Raised("", cache, NoKey, 0, "", 0), cache, gmemo, rmemo)}
           ELSE UNION {RouteOnGraph(graph, origin_lat, origin_lng, dest_lat, dest_lng,
                                    safety_weight, clamp(hours, MinHours, MaxHours),
                                    weather_mode, reference_time, demo_rainfall, resp,
                                    resps, cache, t, apikey, loaded.memo, file, gp,
                                    rmemo) :
                         graph \in {loaded.memo.value}} :
             loaded \in {load_graph(road, gmemo)}}

----------------------------------------------------------------------------
(* testing/services.py *)

NEGROS_SLUG == "negros-island"
MAX_CELL_CELLS == 140
MAX_ROAD_EDGE_CELLS == 220

\* timedelta(minutes=2), in seconds
RunningWindow == 120

is_valid_area(area_slug) == area_slug = NEGROS_SLUG

\* Lines 258-262: the exception the arguments are refused with, "" if none.
BacktestInputRefused(area_slug, sources) ==
    IF ~is_valid_area(area_slug) \/ sources = {} THEN "BacktestInputError" ELSE ""

\* Line 265: a run in status RUNNING created at or after t - 2 minutes exists.
RunningRunExists(runs, t) ==
    \E i \in 1..Len(runs) :
        runs[i].status = "running" /\ runs[i].created_at >= t - RunningWindow

\* _historical_hourly_series: the number of samples, each holding its
\* timestamp as a datetime; 0 stands for BacktestInputError.
historical_hourly_series(start_dt, end_dt) ==
    IF start_dt >= end_dt THEN 0 ELSE Max(1, (end_dt - start_dt) + 1)

\* _sample_in_chunks, as a count
sample_in_chunks(count, max_count) == Min(count, max_count)

\* Lines 291-324: the try block.  [status, samples, payload_rows, memo]:
\* the status the call decided on, the number of weather samples in notes
\* and in weather_summary, the number of payload rows, and load_graph's
\* cache.  A road graph that cannot be loaded is noted and leaves the rows
\* of the cells.
BacktestTry(start_dt, end_dt, sources, road, memo) ==
    IF historical_hourly_series(start_dt, end_dt) = 0
    THEN [status |-> "failed", samples |-> 0, payload_rows |-> 0, memo |-> memo]
    ELSE IF "roads" \notin sources
    THEN [status |-> "completed",
          samples |-> historical_hourly_series(start_dt, end_dt),
          payload_rows |-> sample_in_chunks(MAX_CELL_CELLS, MAX_CELL_CELLS),
          memo |-> memo]
    ELSE The({[status |-> "completed",
               samples |-> historical_hourly_series(start_dt, end_dt),
               payload_rows |->
                   sample_in_chunks(MAX_CELL_CELLS, MAX_CELL_CELLS)
                     + (IF graph.ok
                        THEN sample_in_chunks(Cardinality(graph.memo.value.edges),
                                              MAX_ROAD_EDGE_CELLS)
                        ELSE 0),
               memo |-> graph.memo] :
                graph \in {load_graph(road, memo)}})

\* What json.dumps, by which the JSONField `notes` is written (models.py:19,
\* no encoder given), makes of the notes of line 329: a datetime is not
\* serialisable, and each weather sample holds one.
NotesSerialisable(samples) == samples = 0

----------------------------------------------------------------------------
(* core/services.py *)

\* The defaults of max_radius_km and radius_step_km, in metres
MAX_RADIUS_KM == 200000
RADIUS_STEP_KM == 10000

\* None, as limit
NoLimit == -1000

\* A row of EvacuationCenter.objects.all() is [name, capacity, haversine]:
\* haversine is what haversine_km gives for the row and the query point, in
\* millimetres.

\* candidates.sort(key=distance_km): ascending, equal keys in their original
\* order.
RECURSIVE InsertByDistance(_, _)
InsertByDistance(sorted, c) ==
    IF sorted = <<>> THEN <<c>>
    ELSE IF Head(sorted).distance_km <= c.distance_km
    THEN <<Head(sorted)>> \o InsertByDistance(Tail(sorted), c)
    ELSE <<c>> \o sorted

RECURSIVE SortByDistance(_)
SortByDistance(s) ==
    IF s = <<>> THEN <<>>
    ELSE InsertByDistance(SortByDistance(SubSeq(s, 1, Len(s) - 1)), s[Len(s)])

\* options[:limit]: a negative limit counts from the end of the list.
SliceTo(options, limit) ==
    IF limit >= 0 THEN Take(options, limit)
    ELSE Take(options, Max(0, Len(options) + limit))

\* Lines 30-39: the widening search.  Radii in metres.
RECURSIVE ExpandingSearch(_, _, _, _, _)
ExpandingSearch(candidates, search_radius, limit, max_radius_km, radius_step_km) ==
    IF search_radius > max_radius_km THEN <<>>
    ELSE IF \E i \in 1..Len(candidates) : candidates[i].distance_km <= search_radius
    THEN IF limit = NoLimit
         THEN SelectSeq(candidates, LAMBDA c : c.distance_km <= search_radius)
         ELSE SliceTo(SelectSeq(candidates, LAMBDA c : c.distance_km <= search_radius),
                      limit)
    ELSE ExpandingSearch(candidates, search_radius + radius_step_km, limit,
                         max_radius_km, radius_step_km)

\* nearest_evacuation_centers(lat, lng, limit, max_radius_km, radius_step_km)
\* over the rows `centers`; distance_km = round(distance_km, 3), in metres.
nearest_evacuation_centers(centers, limit, max_radius_km, radius_step_km) ==
    IF centers = <<>> THEN <<>>
    ELSE The({ExpandingSearch(candidates, radius_step_km, limit, max_radius_km,
                              radius_step_km) :
                candidates \in
                  {SortByDistance([i \in 1..Len(centers) |->
                                      [name |-> centers[i].name,
                                       capacity |-> centers[i].capacity,
                                       distance_km |-> Round3(centers[i].haversine)]])}})

\* Line 37 in halves of the step
HalfStepRadius(search_radius, radius_step_km) == search_radius + (radius_step_km \div 2)

\* Line 37: search_radius += radius_step_km
NextRadius(search_radius, radius_step_km) == search_radius + radius_step_km

----------------------------------------------------------------------------
(* chat/tool_router.py *)

\* A coordinate of the destination is carried as where it came from: "none"
\* (None), "argument" (dest_lat, dest_lng of the call), "message" (the second
\* coordinate pair in the message) or "center" (an evacuation center).
\* A tool call of a plan is [tool, limit]; limit is NoLimit where the
\* arguments hold none.
ToolCall(tool, limit) == [tool |-> tool, limit |-> limit]

\* _build_tool_plan, for the intents _detect_tool_intents finds in the message
build_tool_plan(intents, need_route) ==
    IF intents = {} /\ ~need_route THEN <<>>
    ELSE (IF "risk" \in intents THEN <<ToolCall("tool_get_risk", NoLimit)>> ELSE <<>>)
         \o (IF "upstream" \in intents
             THEN <<ToolCall("tool_get_upstream_summary", NoLimit)>> ELSE <<>>)
         \o (IF "evac" \in intents
             THEN <<ToolCall("tool_get_evac_centers", NoLimit)>> ELSE <<>>)
         \o (IF "route" \in intents \/ need_route
             THEN <<ToolCall("tool_get_safe_route", NoLimit)>> ELSE <<>>)

\* One tool function called: st.calls records the call, and the exception of
\* a tool in `raising` ends run_tool_router.
ToolCalled(st, tool, raising) ==
    [st EXCEPT !.calls = Append(@, [tool |-> tool, dest_lat |-> st.dest_lat,
                                   dest_lng |-> st.dest_lng,
                                   centers |-> st.evac_centers]),
               !.outcome = IF tool \in raising THEN "raise" ELSE @]

\* Lines 598-606: tool_get_risk, and tool_get_upstream_summary after it.
RouterRisk(st, raising) ==
    The({IF after.outcome = "raise" THEN after
         ELSE [ToolCalled(after, "tool_get_upstream_summary", raising)
                  EXCEPT !.results = @ \cup {"risk", "upstream"}] :
            after \in {ToolCalled(st, "tool_get_risk", raising)}})

\* Lines 608-612
RouterUpstream(st, raising) ==
    [ToolCalled(st, "tool_get_upstream_summary", raising)
        EXCEPT !.results = @ \cup {"upstream"}]

\* Lines 614-620: the lookup of the evacuation centers in `table`.
RouterEvac(st, limit, table, raising) ==
    The({IF "tool_get_evac_centers" \in raising
         THEN ToolCalled(st, "tool_get_evac_centers", raising)
         ELSE [ToolCalled([st EXCEPT !.evac_centers = found],
                          "tool_get_evac_centers", raising)
                  EXCEPT !.results = @ \cup {"evac"}] :
            found \in {nearest_evacuation_centers(table, limit, MAX_RADIUS_KM,
                                                  RADIUS_STEP_KM)}})

\* Lines 622-662: the route tool.
RouterRoute(st, raising) ==
    IF st.dest_lat = "none" /\ st.dest_lng = "none"
    THEN IF st.evac_centers # <<>>
         THEN [ToolCalled([st EXCEPT !.dest_lat = "center", !.dest_lng = "center",
                                     !.destination_name = st.evac_centers[1].name],
                          "tool_get_safe_route", raising)
                  EXCEPT !.results = @ \cup {"route"}]
         ELSE [st EXCEPT !.outcome = "no_destination"]
    ELSE [ToolCalled(st, "tool_get_safe_route", raising)
             EXCEPT !.results = @ \cup {"route"}]

\* Lines 594-665: the loop over the plan.
RECURSIVE RouterLoop(_, _, _, _)
RouterLoop(tool_calls, st, table, raising) ==
    IF tool_calls = <<>> \/ st.outcome # "" THEN st
    ELSE The({RouterLoop(Tail(tool_calls), next, table, raising) :
                next \in
                  {CASE Head(tool_calls).tool = "tool_get_risk" -> RouterRisk(st, raising)
                     [] Head(tool_calls).tool = "tool_get_upstream_summary"
                          -> RouterUpstream(st, raising)
                     [] Head(tool_calls).tool = "tool_get_evac_centers"
                          -> RouterEvac(st, Head(tool_calls).limit, table, raising)
                     [] Head(tool_calls).tool = "tool_get_safe_route"
                          -> RouterRoute(st, raising)
                     [] OTHER -> st}})

\* run_tool_router(message, lat, lng, dest_lat, dest_lng, tool_calls=...):
\* pairs is the number of coordinate pairs in the message, intents what
\* _detect_tool_intents finds in it, supplied whether tool_calls was given.
\* The result: plan, the calls made, and the outcome: "chat" (a reply
\* without tools), "no_destination", "reply" or "raise".
run_tool_router(pairs, intents, dest_lat, dest_lng, supplied, tool_calls, table, raising) ==
    LET dlat == IF pairs >= 2 THEN "message" ELSE dest_lat
        dlng == IF pairs >= 2 THEN "message" ELSE dest_lng
        plan == IF supplied THEN tool_calls
                ELSE build_tool_plan(intents, dlat # "none" /\ dlng # "none")
    IN  The({[plan |-> plan, calls |-> st.calls, dest_lat |-> st.dest_lat,
              dest_lng |-> st.dest_lng, destination_name |-> st.destination_name,
              outcome |-> IF st.outcome # "" THEN st.outcome
                          ELSE IF st.results = {} THEN "chat" ELSE "reply"] :
                st \in {RouterLoop(plan,
                                   [dest_lat |-> dlat, dest_lng |-> dlng,
                                    evac_centers |-> <<>>, destination_name |-> "",
                                    results |-> {}, calls |-> <<>>, outcome |-> ""],
                                   table, raising)}})

----------------------------------------------------------------------------
(* The files and terrain sources of the model *)

Coord(lat, lng) == [has |-> TRUE, lat |-> lat, lng |-> lng]
NoCoord == [has |-> FALSE, lat |-> 0, lng |-> 0]

MissingRiver == [kind |-> "missing", nodes |-> {}, coord |-> <<>>, edges |-> {}]
UnreadableRiver == [kind |-> "unreadable", nodes |-> {}, coord |-> <<>>, edges |-> {}]
NotGraphRiver == [kind |-> "notgraph", nodes |-> {}, coord |-> <<>>, edges |-> {}]
EmptyRiver == [kind |-> "graph", nodes |-> {}, coord |-> <<>>, edges |-> {}]

\* Two connected nodes, neither with coordinates
NoCoordRiver ==
    [kind |-> "graph", nodes |-> {1, 2}, coord |-> <<NoCoord, NoCoord>>,
     edges |-> {<<2, 1, 1000>>}]

\* 3 --6000--> 2 --3000--> 1 <--1000-- 4, node 4 without coordinates, node 1
\* next to the model's query points
SmallRiver ==
    [kind |-> "graph", nodes |-> {1, 2, 3, 4},
     coord |-> <<Coord(10670000, 122950000), Coord(10690000, 122960000),
                 Coord(10740000, 122980000), NoCoord>>,
     edges |-> {<<2, 1, 3000>>, <<3, 2, 6000>>, <<4, 1, 1000>>}]

\* Node 2 next to the model's query points, with node 1 (far from them) and
\* node 6 downstream of it; upstream, 3 --3600--> 2 and 4 --2000--> 2,
\* 4 --200--> 3, node 5 over 3 (1000) or over 4 (3000), and node 7 20000 m
\* above node 5.  Only nodes 1, 2 and 5 have coordinates.
BraidedRiver ==
    [kind |-> "graph", nodes |-> {1, 2, 3, 4, 5, 6, 7},
     coord |-> <<Coord(10650000, 122940000), Coord(10670000, 122950000), NoCoord,
                 NoCoord, Coord(10740000, 122980000), NoCoord, NoCoord>>,
     edges |-> {<<2, 1, 500>>, <<2, 6, 500>>, <<3, 2, 3600>>, <<4, 2, 2000>>,
                <<4, 3, 200>>, <<5, 3, 1000>>, <<5, 4, 3000>>, <<7, 5, 20000>>}]

\* Six nodes with coordinates, node 1 next to the model's query points:
\* 2 --1000--> 1, 3 --1000--> 2, 4 --3000--> 1, 5 --1000--> 3 and
\* 6 --7000--> 5.  Without a provider the rainfall of nodes 3 and 6 is the
\* heaviest and that of node 2 the lightest; nodes 4 and 5, both 3000 m up,
\* have the rainfall of node 1.
WideRiver ==
    [kind |-> "graph", nodes |-> {1, 2, 3, 4, 5, 6},
     coord |-> <<Coord(10670000, 122950000), Coord(10681100, 122960000),
                 Coord(10690200, 122970000), Coord(10700000, 122980000),
                 Coord(10710400, 122990000), Coord(10720200, 123000000)>>,
     edges |-> {<<2, 1, 1000>>, <<3, 2, 1000>>, <<4, 1, 3000>>, <<5, 3, 1000>>,
                <<6, 5, 7000>>}]

RiverFiles ==
    {MissingRiver, UnreadableRiver, NotGraphRiver, EmptyRiver, NoCoordRiver, SmallRiver,
     BraidedRiver, WideRiver}

NoRoad == [kind |-> "none", nodes |-> {}, xy |-> <<>>, edges |-> {}]
MissingRoad == [kind |-> "missing", nodes |-> {}, xy |-> <<>>, edges |-> {}]

Edge(u, v, key, length, hazard_score, elevation_m, river_m) ==
    [u |-> u, v |-> v, key |-> key, length |-> length, hazard_score |-> hazard_score,
     elevation_m |-> elevation_m, river_m |-> river_m]

\* Four nodes: from 1 to 4 a short way over 2 along the river on low ground,
\* and a longer way over 3 on high ground; one-way streets, and two parallel
\* edges from 1 to 2.
DiamondRoad ==
    [kind |-> "graph", nodes |-> {1, 2, 3, 4},
     xy |-> <<[lat |-> 10670000, lng |-> 122950000],
              [lat |-> 10675000, lng |-> 122955000],
              [lat |-> 10665000, lng |-> 122955000],
              [lat |-> 10670000, lng |-> 122960000]>>,
     edges |-> {Edge(1, 2, 0, 700, NoHazard, 12, 100),
                Edge(1, 2, 1, 900, 0, 12, 100),
                Edge(2, 4, 0, 700, NoHazard, 12, 100),
                Edge(1, 3, 0, 701, NoHazard, 60, 5000),
                Edge(3, 4, 0, 703, NoHazard, 60, 5000),
                Edge(1, 4, 0, 1500, NoHazard, 12, 100)}]

\* Two nodes more than the hub radius apart, joined one way
FarRoad ==
    [kind |-> "graph", nodes |-> {1, 4},
     xy |-> (1 :> [lat |-> 10670000, lng |-> 122950000]
             @@ 4 :> [lat |-> 10670000, lng |-> 122960000]),
     edges |-> {Edge(1, 4, 0, 11000, NoHazard, 60, 5000)}]

RoadFiles == {MissingRoad, DiamondRoad, FarRoad}

Terrain(dem, remote, simulated, river, river_m, proxy_m, flood_zones) ==
    [dem |-> dem, remote |-> remote, simulated |-> simulated, river |-> river,
     river_m |-> river_m, proxy_m |-> proxy_m, flood_zones |-> flood_zones]

\* No source available at all
BareTerrain == Terrain(Unavailable, Unavailable, 60, "none", 0, 40, "missing")

Geodatas ==
    {BareTerrain,
     Terrain(12, Unavailable, 60, "union", 30, 40, "inside"),
     Terrain(Unavailable, 35, 60, "points", 400, 40, "near"),
     Terrain(Unavailable, Unavailable, 60, "corrupt", 0, 40, "far"),
     Terrain(12, 35, 60, "union", 30, 40, "corrupt")}

\* Provider answers to the requests of one upstream scan
NoResps == <<NoResp, NoResp, NoResp, NoResp, NoResp, NoResp>>
GoodResp == [kind |-> "hourly", records |-> <<Num(126)>>]
Non200Resp == [kind |-> "non200", records |-> <<>>]
TextResp == [kind |-> "hourly", records |-> <<Tok("text")>>]
UpResponses == {GoodResp, Non200Resp, TextResp}
UpResponseSeqs ==
    {<<GoodResp, GoodResp, GoodResp, GoodResp, GoodResp, GoodResp>>,
     <<Non200Resp, GoodResp, Non200Resp, GoodResp, Non200Resp, Non200Resp>>,
     <<TextResp, GoodResp, GoodResp, GoodResp, GoodResp, GoodResp>>,
     <<GoodResp, TextResp, GoodResp, GoodResp, GoodResp, GoodResp>>,
     <<GoodResp, Non200Resp, TextResp, GoodResp, GoodResp, GoodResp>>}

\* The answers to draw for the upstream requests of a call that passes
\* `arguments` to compute_upstream_rain_index: none where no request is sent.
UpstreamAnswers(arguments, apikey) ==
    IF ApiKeyMissing(apikey) \/ ~(arguments \subseteq UpstreamParameters)
    THEN {NoResps} ELSE UpResponseSeqs

RiskModes == {"", "historical", "demo"}
RiskRefTimes == {NoRef, [form |-> "int", sec |-> 1700]}
RiskDemoInputs ==
    {NoDemo, [form |-> "csv", items |-> <<Num(1026), Num(2000)>>],
     [form |-> "list", items |-> <<Num(1000), Num(-100)>>]}

\* Points next to nodes 1 and 4 of the road graphs
RoutePoints ==
    {[lat |-> 10670001, lng |-> 122950000], [lat |-> 10670004, lng |-> 122960000]}
SafetyWeights == {0, 2}
RouteHours == {3}

----------------------------------------------------------------------------
(* The state machine *)

EmptyCache == [k \in {} |-> 0]
NoEntry == [at |-> 0, values |-> <<>>]

\* `last` describes the call that has just returned; it is cleared when the
\* clock moves on, so `now` in a state with last.op # "none" is the time of
\* that call.  had_entry/entry: what the cache held under the call's key
\* before the call; cache_changed: whether the call changed any cache entry.
NoCall ==
    [op |-> "none", lat |-> 0, lng |-> 0, hours |-> 0, reference_time |-> NoRef,
     demo_rainfall |-> NoDemo, resp |-> NoResp,
     had_entry |-> FALSE, entry |-> NoEntry, cache_changed |-> FALSE,
     res |-> Raised("", EmptyCache, NoKey, 0, "", 0)]

\* `run` describes the upstream, risk or route call that has just returned;
\* like `last` it is cleared when the clock moves on.  rain is the outcome of
\* the call's own rainfall request for its point; load_ran: the call's
\* load_graph() ran _load_negros_graph.
NoRun ==
    [op |-> "none", lat |-> 0, lng |-> 0, dest_lat |-> 0, dest_lng |-> 0,
     hours |-> 0, safety_weight |-> 0, mode |-> "", reference_time |-> NoRef,
     demo_rainfall |-> NoDemo, outcome |-> "none", exc |-> "",
     summary |-> ZeroSummary(1), rain_requests |-> 0, cache_changed |-> FALSE,
     risk_score |-> 0, risk_level |-> "", searches |-> <<>>, path |-> <<>>,
     route_graph |-> NoRouteGraph, total_distance |-> 0, hazard_exposure |-> 0,
     origin_node |-> NoNode, destination_node |-> NoNode,
     rain |-> Raised("", EmptyCache, NoKey, 0, "", 0),
     load_ran |-> FALSE, upstream_nodes |-> <<>>, dominant_payload |-> <<>>,
     search_cost |-> 0, hazard_computed |-> <<>>]

\* The threads of the process that call the two loaders
Threads == {1, 2, 3}

\* What a call of a loader gave its caller: the object (id: its identity,
\* value: its content), or an exception.
NoInstance == [id |-> 0, value |-> NoneGraph, raised |-> FALSE]

\* pc[t]: "idle", "loading" (the call missed the cache and the wrapped
\* function is running) or "done"; fn[t]: the loader thread t called; hit[t]:
\* the call was answered from the cache; made: the objects built so far;
\* memo_id: the identity of the object each loader's cache holds.
NoLoads ==
    [pc |-> [t \in Threads |-> "idle"], fn |-> [t \in Threads |-> "none"],
     hit |-> [t \in Threads |-> FALSE], got |-> [t \in Threads |-> NoInstance],
     made |-> 0, memo_id |-> [road |-> 0, river |-> 0]]

NoCalc == [op |-> "none"]

\* The threads that call run_backtest, one call each
BacktestThreads == {1, 2}

\* The state of one run_backtest call.  pc: "idle", then the statement the
\* call executes next ("check", "create", "work", "save", "persist"), then
\* "done"; start_dt, end_dt in hours; sources: the sources switched on;
\* run: the row the call created (0: none); status, samples, payload_rows:
\* the locals of that name (the last two as counts); outcome: "return" or
\* the exception that left the call.
NoBacktestCall ==
    [pc |-> "idle", area_slug |-> "", start_dt |-> 0, end_dt |-> 0, sources |-> {},
     run |-> 0, status |-> "", samples |-> 0, payload_rows |-> 0, outcome |-> ""]

\* runs: the BacktestRun rows in the order of their creation, each
\* [created_at, status]; results: the runs that have BacktestResult rows.
NoBacktest ==
    [runs |-> <<>>, results |-> {}, call |-> [t \in BacktestThreads |-> NoBacktestCall]]

\* A process that has just started: nothing cached, nothing loaded.
InitProcess ==
    /\ hourly_cache = EmptyCache
    /\ now = 0
    /\ hash_seed \in HashSeeds
    /\ river_graph_cache = [set |-> FALSE, value |-> NoneGraph]
    /\ load_graph_cache = [set |-> FALSE, value |-> NoRoad]
    /\ last = NoCall
    /\ run = NoRun
    /\ ncalls = 0
    /\ loads = NoLoads
    /\ calc = NoCalc
    /\ backtest = NoBacktest

Init ==
    /\ InitProcess
    /\ api_key \in ApiKeys
    /\ river_file = MissingRiver
    /\ has_read_gpickle = TRUE
    /\ road_file = MissingRoad
    /\ geodata = BareTerrain

\* The clock advances between calls.
Tick ==
    /\ \E d \in Ticks : now + d <= MaxNow /\ now' = now + d
    /\ last' = NoCall
    /\ run' = NoRun
    /\ UNCHANGED <<hourly_cache, world, river_graph_cache, load_graph_cache, ncalls, aside>>

\* What `last` keeps of a call's result: the cache itself lives in hourly_cache.
Outcome(res) == [res EXCEPT !.cache = EmptyCache]

\* One call of get_hourly_rain from outside.
GetHourlyRain ==
    /\ ncalls < MaxCalls
    /\ \E lat \in Lats, lng \in Lngs, hours \in HoursInputs, weather_mode \in WeatherModes :
       \E reference_time \in (IF NormalizeMode(weather_mode) = "historical"
                              THEN RefTimes ELSE {NoRef}),
          demo_rainfall \in (IF NormalizeMode(weather_mode) = "demo"
                             THEN DemoInputs ELSE {NoDemo}) :
       LET probe == get_hourly_rain(lat, lng, hours, weather_mode, reference_time,
                                    demo_rainfall, NoResp, hourly_cache, now, api_key)
       IN  \E resp \in (IF probe.provider = 1 THEN Responses ELSE {NoResp}) :
           LET res == get_hourly_rain(lat, lng, hours, weather_mode, reference_time,
                                      demo_rainfall, resp, hourly_cache, now, api_key)
               had == res.key \in DOMAIN hourly_cache
           IN  /\ hourly_cache' = res.cache
               /\ last' = [op |-> "get_hourly_rain", lat |-> lat, lng |-> lng,
                           hours |-> hours,
                           reference_time |-> reference_time,
                           demo_rainfall |-> demo_rainfall, resp |-> resp,
                           had_entry |-> had,
                           entry |-> IF had THEN hourly_cache[res.key] ELSE NoEntry,
                           cache_changed |-> res.cache # hourly_cache,
                           res |-> Outcome(res)]
               /\ ncalls' = ncalls + 1
    /\ UNCHANGED <<now, world, river_graph_cache, load_graph_cache, run, aside>>

NextWeather == GetHourlyRain \/ Tick

SpecWeather == Init /\ [][NextWeather]_vars

----------------------------------------------------------------------------
(* Calls of the upstream, risk and route operations *)

\* compute_upstream_rain_index(lat=lat, lng=lng, horizon_hours=hours), as
\* chat/tool_router.py:108 calls it.
ComputeUpstreamRainIndex ==
    /\ ncalls < MaxCalls
    /\ \E lat \in Lats, lng \in Lngs, hours \in HoursInputs :
       \E resps \in UpstreamAnswers(UpstreamParameters, api_key) :
          \E res \in {call_compute_upstream_rain_index(UpstreamParameters, lat, lng,
                          hours, resps, hourly_cache, now, api_key, river_file,
                          has_read_gpickle, river_graph_cache)} :
              /\ hourly_cache' = res.cache
              /\ river_graph_cache' = res.memo
              /\ run' = [NoRun EXCEPT !.op = "compute_upstream_rain_index",
                                      !.lat = lat, !.lng = lng, !.hours = hours,
                                      !.outcome = res.outcome, !.exc = res.exc,
                                      !.summary = res.summary,
                                      !.rain_requests = res.rain_requests,
                                      !.cache_changed = res.cache # hourly_cache,
                                      !.upstream_nodes = res.upstream_nodes,
                                      !.dominant_payload = res.dominant_payload]
    /\ last' = NoCall
    /\ ncalls' = ncalls + 1
    /\ UNCHANGED <<now, world, load_graph_cache, aside>>

InitUpstream ==
    /\ InitProcess
    /\ api_key \in ApiKeys
    /\ river_file \in RiverFiles
    /\ has_read_gpickle \in BOOLEAN
    /\ road_file = MissingRoad
    /\ geodata = BareTerrain

NextUpstream == ComputeUpstreamRainIndex \/ Tick

SpecUpstream == InitUpstream /\ [][NextUpstream]_vars

\* One call of estimate_flood_risk from outside.
EstimateFloodRisk ==
    /\ ncalls < MaxCalls
    /\ \E lat \in Lats, lng \in Lngs, hours \in HoursInputs, weather_mode \in RiskModes :
       \E reference_time \in (IF NormalizeMode(weather_mode) = "historical"
                              THEN RiskRefTimes ELSE {NoRef}),
          demo_rainfall \in (IF NormalizeMode(weather_mode) = "demo"
                             THEN RiskDemoInputs ELSE {NoDemo}) :
       LET probe == get_hourly_rain(lat, lng, hours, weather_mode, reference_time,
                                    demo_rainfall, NoResp, hourly_cache, now, api_key)
       IN  \E resp \in (IF probe.provider = 1 THEN UpResponses ELSE {NoResp}),
              resps \in UpstreamAnswers(RiskUpstreamArguments, api_key) :
           \E res \in {estimate_flood_risk(lat, lng, hours, weather_mode,
                           reference_time, demo_rainfall, resp, resps, hourly_cache,
                           now, api_key, geodata, road_file, river_file,
                           has_read_gpickle, river_graph_cache)} :
               /\ hourly_cache' = res.cache
               /\ river_graph_cache' = res.memo
               /\ run' = [NoRun EXCEPT !.op = "estimate_flood_risk",
                                       !.lat = lat, !.lng = lng, !.hours = hours,
                                       !.mode = NormalizeMode(weather_mode),
                                       !.reference_time = reference_time,
                                       !.demo_rainfall = demo_rainfall,
                                       !.outcome = res.outcome, !.exc = res.exc,
                                       !.summary = res.upstream_summary,
                                       !.rain_requests = res.rain_requests,
                                       !.cache_changed = res.cache # hourly_cache,
                                       !.risk_score = res.risk_score,
                                       !.risk_level = res.risk_level,
                                       !.rain = res.rain]
    /\ last' = NoCall
    /\ ncalls' = ncalls + 1
    /\ UNCHANGED <<now, world, load_graph_cache, aside>>

InitRisk ==
    /\ InitProcess
    /\ api_key \in ApiKeys
    /\ river_file \in {MissingRiver, SmallRiver}
    /\ has_read_gpickle = TRUE
    /\ road_file = MissingRoad
    /\ geodata \in Geodatas

NextRisk == EstimateFloodRisk \/ Tick

SpecRisk == InitRisk /\ [][NextRisk]_vars

\* One call of compute_safe_route from outside.
ComputeSafeRoute ==
    /\ ncalls < MaxCalls
    /\ \E origin \in RoutePoints, dest \in RoutePoints, safety_weight \in SafetyWeights,
          hours \in RouteHours, weather_mode \in RiskModes :
       \E reference_time \in (IF NormalizeMode(weather_mode) = "historical"
                              THEN RiskRefTimes ELSE {NoRef}),
          demo_rainfall \in (IF NormalizeMode(weather_mode) = "demo"
                             THEN RiskDemoInputs ELSE {NoDemo}) :
       LET probe == get_hourly_rain(origin.lat, origin.lng, hours, weather_mode,
                                    reference_time, demo_rainfall, NoResp,
                                    hourly_cache, now, api_key)
       IN  \E resp \in (IF probe.provider = 1 THEN UpResponses ELSE {NoResp}),
              resps \in UpstreamAnswers(RouteUpstreamArguments, api_key) :
           \E res \in compute_safe_route(origin.lat, origin.lng, dest.lat, dest.lng,
                          safety_weight, hours, weather_mode, reference_time,
                          demo_rainfall, resp, resps, hourly_cache, now, api_key,
                          road_file, load_graph_cache, river_file, has_read_gpickle,
                          river_graph_cache) :
               /\ hourly_cache' = res.cache
               /\ river_graph_cache' = res.rmemo
               /\ load_graph_cache' = res.gmemo
               /\ run' = [NoRun EXCEPT !.op = "compute_safe_route",
                                       !.lat = origin.lat, !.lng = origin.lng,
                                       !.dest_lat = dest.lat, !.dest_lng = dest.lng,
                                       !.hours = hours,
                                       !.safety_weight = safety_weight,
                                       !.mode = NormalizeMode(weather_mode),
                                       !.reference_time = reference_time,
                                       !.demo_rainfall = demo_rainfall,
                                       !.outcome = res.outcome, !.exc = res.exc,
                                       !.cache_changed = res.cache # hourly_cache,
                                       !.searches = res.searches,
                                       !.path = res.path,
                                       !.route_graph = res.route_graph,
                                       !.total_distance = res.total_distance,
                                       !.hazard_exposure = res.hazard_exposure,
                                       !.origin_node = res.origin_node,
                                       !.destination_node = res.destination_node,
                                       !.rain = res.rain,
                                       !.search_cost = res.search_cost,
                                       !.hazard_computed = res.hazard_computed,
                                       !.load_ran =
                                           load_graph(road_file, load_graph_cache).ran]
    /\ last' = NoCall
    /\ ncalls' = ncalls + 1
    /\ UNCHANGED <<now, world, aside>>

InitRoute ==
    /\ InitProcess
    /\ api_key \in ApiKeys
    /\ river_file \in {MissingRiver, SmallRiver}
    /\ has_read_gpickle = TRUE
    /\ road_file \in RoadFiles
    /\ geodata = BareTerrain

NextRoute == ComputeSafeRoute \/ Tick

SpecRoute == InitRoute /\ [][NextRoute]_vars

\* A process that serves upstream, risk and route calls, with both graph
\* files in place.
InitGraphs ==
    /\ InitProcess
    /\ api_key \in ApiKeys
    /\ river_file \in {NoCoordRiver, SmallRiver}
    /\ has_read_gpickle = TRUE
    /\ road_file \in {DiamondRoad, FarRoad}
    /\ geodata = BareTerrain

NextGraphs == ComputeUpstreamRainIndex \/ EstimateFloodRisk \/ ComputeSafeRoute \/ Tick

SpecGraphs == InitGraphs /\ [][NextGraphs]_vars

----------------------------------------------------------------------------
(* Concurrent calls of load_graph and _load_river_graph *)

\* Variant of lru_cache_store in which the result that arrives last is kept.
lru_cache_store_last(entry, result) == result

\* functools.lru_cache when the wrapped function has returned: the result is
\* stored unless the key was stored while the function ran.  An entry is
\* [set, value, id].
lru_cache_store(entry, result) == IF entry.set THEN entry ELSE result

\* The cache of loader fn, with the identity of the object it holds
MemoOf(fn) ==
    IF fn = "road"
    THEN [set |-> load_graph_cache.set, value |-> load_graph_cache.value,
          id |-> loads.memo_id.road]
    ELSE [set |-> river_graph_cache.set, value |-> river_graph_cache.value,
          id |-> loads.memo_id.river]

\* Thread t calls load_graph() or _load_river_graph(): the cache lookup.
LoadStart(t) ==
    /\ loads.pc[t] = "idle"
    /\ \E fn \in {"road", "river"} :
          loads' = IF MemoOf(fn).set
                   THEN [loads EXCEPT !.pc[t] = "done", !.fn[t] = fn, !.hit[t] = TRUE,
                                      !.got[t] = [id |-> MemoOf(fn).id,
                                                  value |-> MemoOf(fn).value,
                                                  raised |-> FALSE]]
                   ELSE [loads EXCEPT !.pc[t] = "loading", !.fn[t] = fn]
    /\ UNCHANGED <<hourly_cache, now, world, river_graph_cache, load_graph_cache, last,
                   run, ncalls, calc, backtest>>

\* The wrapped function of thread t returns a new object, or raises; the
\* wrapper stores a returned object and returns it.
LoadComplete(t) ==
    /\ loads.pc[t] = "loading"
    /\ IF loads.fn[t] = "road" /\ ~load_graph(road_file, [set |-> FALSE, value |-> NoRoad]).ok
       THEN /\ loads' = [loads EXCEPT !.pc[t] = "done",
                                      !.got[t] = [NoInstance EXCEPT !.raised = TRUE]]
            /\ UNCHANGED <<river_graph_cache, load_graph_cache>>
       ELSE \E made \in {[id |-> loads.made + 1,
                          value |-> IF loads.fn[t] = "road" THEN road_file
                                    ELSE read_river_graph(river_file, has_read_gpickle),
                          raised |-> FALSE]} :
            \E kept \in {lru_cache_store(MemoOf(loads.fn[t]),
                                         [set |-> TRUE, value |-> made.value,
                                          id |-> made.id])} :
              /\ loads' = [loads EXCEPT !.pc[t] = "done", !.got[t] = made,
                                        !.made = made.id,
                                        !.memo_id = IF loads.fn[t] = "road"
                                                    THEN [@ EXCEPT !.road = kept.id]
                                                    ELSE [@ EXCEPT !.river = kept.id]]
              /\ IF loads.fn[t] = "road"
                 THEN /\ load_graph_cache' = [set |-> TRUE, value |-> kept.value]
                      /\ UNCHANGED river_graph_cache
                 ELSE /\ river_graph_cache' = [set |-> TRUE, value |-> kept.value]
                      /\ UNCHANGED load_graph_cache
    /\ UNCHANGED <<hourly_cache, now, world, last, run, ncalls, calc, backtest>>

InitLoads ==
    /\ InitProcess
    /\ api_key \in ApiKeys
    /\ river_file \in {MissingRiver, NotGraphRiver, SmallRiver}
    /\ has_read_gpickle \in BOOLEAN
    /\ road_file \in RoadFiles
    /\ geodata = BareTerrain

NextLoads == \E t \in Threads : LoadStart(t) \/ LoadComplete(t)

SpecLoads == InitLoads /\ [][NextLoads]_vars

----------------------------------------------------------------------------
(* Calls of the scoring functions *)

\* Rainfall sums in tenths of a millimetre, up to 10 m of rain
RainSums == {0, 126, 600, 3000, 100000}
Elevations == {0, 19, 20, 49, 50, 5000}
\* River distances in metres; 999000 is the 999 km of "no river data"
RiverDistances == {0, 50, 51, 10000, 19999, 20000, 999000}
FloodZones == {"missing", "inside", "near", "mid", "far"}
\* total_weighted of an upstream scan, in millionths
UpstreamTotals == {0, 1000000, 60000000, 150000000, 200000000, 2000000000}
AssessHours == {1, 6}
Scores == 0..100

\* An upstream summary with the given total_weighted, its dominant point (if
\* any rain was found) 3 km upstream with 12.6 mm.
SummaryOf(total_weighted) ==
    [ZeroSummary(6) EXCEPT
        !.upstream_rain_index = Round3(total_weighted),
        !.upstream_rain_index_norm = upstream_rain_index_norm(total_weighted),
        !.upstream_nodes_used = 1,
        !.dominant_upstream_points =
            IF total_weighted = 0 THEN <<>>
            ELSE <<[node_id |-> 2, lat |-> 10690000, lng |-> 122960000,
                    distance_m |-> 3000, rain_sum |-> 126,
                    weighted_signal |-> Round3(total_weighted)]>>]

\* Lines 302-347 of estimate_flood_risk, for one set of sources.
AssessRisk ==
    /\ calc = NoCalc
    /\ \E safe_hours \in AssessHours, local_rain_3h \in RainSums,
          elevation_m \in Elevations, river_distance \in RiverDistances,
          zone \in FloodZones, total_weighted \in UpstreamTotals :
       \E hist \in {historical_flood_factor([BareTerrain EXCEPT !.flood_zones = zone])} :
          calc' = [op |-> "risk_assessment", local_rain_3h |-> local_rain_3h,
                   elevation_m |-> elevation_m, river_distance |-> river_distance,
                   zone |-> zone, total_weighted |-> total_weighted,
                   elev_factor |-> elevation_factor(elevation_m),
                   river_factor |-> river_proximity_factor(river_distance),
                   hist_factor |-> hist.factor,
                   in_flood_zone |-> hist.in_flood_zone,
                   upstream_norm |-> upstream_rain_index_norm(total_weighted),
                   result |-> risk_assessment(safe_hours, local_rain_3h, elevation_m,
                                              river_distance, hist,
                                              SummaryOf(total_weighted))]
    /\ UNCHANGED <<hourly_cache, now, world, river_graph_cache, load_graph_cache, last,
                   run, ncalls, loads, backtest>>

\* classify_risk(score)
ClassifyRisk ==
    /\ calc = NoCalc
    /\ \E score \in Scores :
          calc' = [op |-> "classify_risk", score |-> score,
                   risk_level |-> classify_risk(score)]
    /\ UNCHANGED <<hourly_cache, now, world, river_graph_cache, load_graph_cache, last,
                   run, ncalls, loads, backtest>>

\* The attributes of an unscored edge of 500 m: elevation (m) and distance
\* to the river (m) at its midpoint
HazardElevations == {0, 19, 20, 30, 5000}
HazardRiverDistances == {0, 250, 251, 750, 751, 5000}
\* rainfall_next_3h in tenths of a millimetre, upstream_risk_norm in
\* thousandths
HazardRains == {0, 300, 301, 1200}
HazardNorms == {0, 1, 50000, 99999, 100000, 150000}

\* One call of add_edge_hazard_scores on a graph of an unscored edge and an
\* edge loaded with a hazard_score of 12.5, and edge_cost for both edges.
AddEdgeHazardScores ==
    /\ calc = NoCalc
    /\ \E elevation_m \in HazardElevations, river_m \in HazardRiverDistances,
          rainfall_next_3h \in HazardRains, upstream_risk_norm \in HazardNorms,
          safety_weight \in SafetyWeights :
       \E before \in {{Edge(1, 2, 0, 500, NoHazard, elevation_m, river_m),
                       Edge(2, 3, 0, 500, 12500, elevation_m, river_m)}} :
       \E scored \in {add_edge_hazard_scores(before, rainfall_next_3h,
                                             upstream_risk_norm)} :
          calc' = [op |-> "add_edge_hazard_scores", before |-> before,
                   rainfall_next_3h |-> rainfall_next_3h,
                   upstream_risk_norm |-> upstream_risk_norm,
                   safety_weight |-> safety_weight, scored |-> scored,
                   cost |-> [e \in scored |-> edge_cost(e, safety_weight)]]
    /\ UNCHANGED <<hourly_cache, now, world, river_graph_cache, load_graph_cache, last,
                   run, ncalls, loads, backtest>>

\* Rain in tenths of a millimetre, the upstream norm in tenths, elevations
\* in metres
DepthRains == {0, 126, 240, 480, 600, 1200, 2160, 3000, 100000}
DepthNorms == {0, 250, 500, 1000, 1500}
DepthElevations == {0, 19, 50, 51, 100, 175, 237, 238, 5000}

\* Lines 323-324 and 343-344 of estimate_flood_risk: the estimated flood
\* level and its zone.
EstimateFloodDepth ==
    /\ calc = NoCalc
    /\ \E local_rain_3h \in DepthRains, upstream_norm \in DepthNorms,
          elevation_m \in DepthElevations :
       \E estimated_water_level \in {estimate_flood_depth_m(local_rain_3h, upstream_norm,
                                                            elevation_m)} :
          calc' = [op |-> "estimate_flood_depth_m", local_rain_3h |-> local_rain_3h,
                   upstream_norm |-> upstream_norm, elevation_m |-> elevation_m,
                   estimated_flood_level_m |-> estimated_water_level,
                   flood_level_zone |-> classify_flood_depth(estimated_water_level)]
    /\ UNCHANGED <<hourly_cache, now, world, river_graph_cache, load_graph_cache, last,
                   run, ncalls, loads, backtest>>

NextAssess == AssessRisk \/ ClassifyRisk \/ AddEdgeHazardScores \/ EstimateFloodDepth

SpecAssess == Init /\ [][NextAssess]_vars

----------------------------------------------------------------------------
(* Calls of run_backtest *)

BacktestAreas == {"negros-island", "cebu"}
BacktestWindows == {<<6, 18>>, <<18, 6>>}
BacktestSources == {{}, {"weather"}, {"weather", "rivers", "roads"}}

OtherBacktestVars ==
    <<hourly_cache, world, river_graph_cache, last, run, ncalls, loads, calc>>

\* Lines 258-262: a thread calls run_backtest; the arguments are checked.
BacktestBegin(t) ==
    /\ backtest.call[t].pc = "idle"
    /\ \E area_slug \in BacktestAreas, window \in BacktestWindows,
          sources \in BacktestSources :
          backtest' =
              [backtest EXCEPT !.call[t] =
                  [NoBacktestCall EXCEPT
                      !.area_slug = area_slug, !.start_dt = window[1],
                      !.end_dt = window[2], !.sources = sources,
                      !.outcome = BacktestInputRefused(area_slug, sources),
                      !.pc = IF BacktestInputRefused(area_slug, sources) = ""
                             THEN "check" ELSE "done"]]
    /\ UNCHANGED <<now, load_graph_cache, OtherBacktestVars>>

\* Lines 264-266: the query for a recent run in status RUNNING.
BacktestCheck(t) ==
    /\ backtest.call[t].pc = "check"
    /\ backtest' =
          IF RunningRunExists(backtest.runs, now)
          THEN [backtest EXCEPT !.call[t].pc = "done",
                                !.call[t].outcome = "BacktestRateLimitError"]
          ELSE [backtest EXCEPT !.call[t].pc = "create"]
    /\ UNCHANGED <<now, load_graph_cache, OtherBacktestVars>>

\* Lines 268-274: BacktestRun.objects.create(status=RUNNING).
BacktestCreate(t) ==
    /\ backtest.call[t].pc = "create"
    /\ backtest' =
          [backtest EXCEPT
              !.runs = Append(@, [created_at |-> now, status |-> "running"]),
              !.call[t].run = Len(backtest.runs) + 1,
              !.call[t].status = "running",
              !.call[t].pc = "work"]
    /\ UNCHANGED <<now, load_graph_cache, OtherBacktestVars>>

\* Lines 276-324: the work, which decides the status.
BacktestWork(t) ==
    /\ backtest.call[t].pc = "work"
    /\ \E res \in {BacktestTry(backtest.call[t].start_dt, backtest.call[t].end_dt,
                                backtest.call[t].sources, road_file,
                                load_graph_cache)} :
          /\ backtest' = [backtest EXCEPT !.call[t].status = res.status,
                                          !.call[t].samples = res.samples,
                                          !.call[t].payload_rows = res.payload_rows,
                                          !.call[t].pc = "save"]
          /\ load_graph_cache' = res.memo
    /\ UNCHANGED <<now, OtherBacktestVars>>

\* Lines 326-334: run.save(update_fields=["status", "runtime_ms", "notes"]).
\* Notes that cannot be serialised raise TypeError out of the finally block,
\* and no row is updated.
BacktestSave(t) ==
    /\ backtest.call[t].pc = "save"
    /\ backtest' =
          IF NotesSerialisable(backtest.call[t].samples)
          THEN [backtest EXCEPT
                   !.runs[backtest.call[t].run].status = backtest.call[t].status,
                   !.call[t].pc = "persist"]
          ELSE [backtest EXCEPT !.call[t].pc = "done",
                                !.call[t].outcome = "TypeError"]
    /\ UNCHANGED <<now, load_graph_cache, OtherBacktestVars>>

\* Lines 336-363: the result rows of a completed run, and the return.
BacktestPersist(t) ==
    /\ backtest.call[t].pc = "persist"
    /\ backtest' =
          [backtest EXCEPT
              !.results = IF backtest.call[t].payload_rows > 0
                              /\ backtest.call[t].status = "completed"
                          THEN @ \cup {backtest.call[t].run} ELSE @,
              !.call[t].pc = "done", !.call[t].outcome = "return"]
    /\ UNCHANGED <<now, load_graph_cache, OtherBacktestVars>>

\* A minute passes.
BacktestMinute ==
    /\ now + 60 <= MaxBacktestNow
    /\ now' = now + 60
    /\ UNCHANGED <<backtest, load_graph_cache, OtherBacktestVars>>

InitBacktest ==
    /\ InitProcess
    /\ api_key = ""
    /\ river_file = MissingRiver
    /\ has_read_gpickle = TRUE
    /\ road_file \in {MissingRoad, DiamondRoad}
    /\ geodata = BareTerrain

NextBacktest ==
    \/ \E t \in BacktestThreads :
          \/ BacktestBegin(t) \/ BacktestCheck(t) \/ BacktestCreate(t)
          \/ BacktestWork(t) \/ BacktestSave(t) \/ BacktestPersist(t)
    \/ BacktestMinute

SpecBacktest == InitBacktest /\ [][NextBacktest]_vars

----------------------------------------------------------------------------
(* Calls of nearest_evacuation_centers *)

\* Evacuation centers at 3 km, just under and just over 10 km (both 10.000
\* when rounded), 15 km, 195 km and 250 km from the query point
CenterRows ==
    {[name |-> "A", capacity |-> 100, haversine |-> 3000000],
     [name |-> "B", capacity |-> 50, haversine |-> 9999600],
     [name |-> "C", capacity |-> 80, haversine |-> 10000400],
     [name |-> "D", capacity |-> 20, haversine |-> 15000000],
     [name |-> "E", capacity |-> 60, haversine |-> 195000000],
     [name |-> "F", capacity |-> 70, haversine |-> 250000000]}

\* The tables of at most three centers, in every row order
CenterTables ==
    {rows \in UNION {[1..k -> CenterRows] : k \in 0..3} :
        \A i, j \in 1..Len(rows) : i # j => rows[i] # rows[j]}

\* limit: None, chat_agent's 1, the views' 3, and what int(args["limit"])
\* of chat/tool_router.py:615-617 can also give
Limits == {NoLimit, -1, 0, 1, 3}

\* One call of nearest_evacuation_centers with the default radii.
NearestEvacuationCenters ==
    /\ calc = NoCalc
    /\ \E centers \in CenterTables, limit \in Limits :
          calc' = [op |-> "nearest_evacuation_centers", centers |-> centers,
                   limit |-> limit, max_radius_km |-> MAX_RADIUS_KM,
                   radius_step_km |-> RADIUS_STEP_KM,
                   result |-> nearest_evacuation_centers(centers, limit, MAX_RADIUS_KM,
                                                         RADIUS_STEP_KM)]
    /\ UNCHANGED <<hourly_cache, now, world, river_graph_cache, load_graph_cache, last,
                   run, ncalls, loads, backtest>>

NextEvacuation == NearestEvacuationCenters

SpecEvacuation == Init /\ [][NextEvacuation]_vars

----------------------------------------------------------------------------
(* nearest_evacuation_centers, one pass of its loop at a time *)

\* The expansions counted at most
MaxExpansions == 25

SearchSteps == {0, 10000, 30000, 70000}
SearchMaxRadii == {95000, MAX_RADIUS_KM}

\* Lines 8-28: the candidates built and sorted, the return of line 27-28
\* when there are none, and search_radius = radius_step_km.
SearchStart ==
    /\ calc = NoCalc
    /\ \E centers \in CenterTables, limit \in {NoLimit, 1},
          max_radius_km \in SearchMaxRadii, radius_step_km \in SearchSteps :
          calc' = [op |-> "evacuation_search", centers |-> centers, limit |-> limit,
                   max_radius_km |-> max_radius_km, radius_step_km |-> radius_step_km,
                   candidates |->
                       SortByDistance([i \in 1..Len(centers) |->
                                          [name |-> centers[i].name,
                                           capacity |-> centers[i].capacity,
                                           distance_km |-> Round3(centers[i].haversine)]]),
                   pc |-> IF centers = <<>> THEN "done" ELSE "while",
                   search_radius |-> radius_step_km, passes |-> 0, expansions |-> 0,
                   result |-> <<>>]
    /\ UNCHANGED <<hourly_cache, now, world, river_graph_cache, load_graph_cache, last,
                   run, ncalls, loads, backtest>>

\* Lines 31-39: the test of the while loop and one pass of its body.
SearchIterate ==
    /\ calc.op = "evacuation_search" /\ calc.pc = "while"
    /\ calc' =
         IF calc.search_radius > calc.max_radius_km
         THEN [calc EXCEPT !.pc = "done", !.result = <<>>]
         ELSE IF \E i \in 1..Len(calc.candidates) :
                    calc.candidates[i].distance_km <= calc.search_radius
         THEN [calc EXCEPT
                 !.pc = "done", !.passes = Min(@ + 1, MaxExpansions),
                 !.result =
                    IF calc.limit = NoLimit
                    THEN SelectSeq(calc.candidates,
                                   LAMBDA c : c.distance_km <= calc.search_radius)
                    ELSE SliceTo(SelectSeq(calc.candidates,
                                           LAMBDA c : c.distance_km <= calc.search_radius),
                                 calc.limit)]
         ELSE [calc EXCEPT
                 !.passes = Min(@ + 1, MaxExpansions),
                 !.expansions = Min(@ + 1, MaxExpansions),
                 !.search_radius = NextRadius(@, calc.radius_step_km)]
    /\ UNCHANGED <<hourly_cache, now, world, river_graph_cache, load_graph_cache, last,
                   run, ncalls, loads, backtest>>

NextSearch == SearchStart \/ SearchIterate

\* The call, once started, keeps running.
SpecSearch == Init /\ [][NextSearch]_vars /\ WF_vars(SearchIterate)

----------------------------------------------------------------------------
(* Calls of run_tool_router *)

RouterIntents == SUBSET {"risk", "upstream", "evac", "route"}
RouterCoordinates == {"none", "argument"}

\* Plans a caller hands in as tool_calls
SuppliedPlans ==
    {<<>>, <<ToolCall("tool_get_safe_route", NoLimit)>>,
     <<ToolCall("tool_get_safe_route", NoLimit), ToolCall("tool_get_evac_centers", NoLimit)>>,
     <<ToolCall("tool_get_evac_centers", 0), ToolCall("tool_get_safe_route", NoLimit)>>,
     <<ToolCall("tool_get_evac_centers", 1), ToolCall("tool_get_safe_route", NoLimit)>>,
     <<ToolCall("tool_lookup", NoLimit)>>}

\* The evacuation centers stored: none; one out of reach; two in reach, the
\* farther one stored first
RouterTables ==
    {<<>>,
     <<[name |-> "F", capacity |-> 70, haversine |-> 250000000]>>,
     <<[name |-> "D", capacity |-> 20, haversine |-> 15000000],
       [name |-> "A", capacity |-> 100, haversine |-> 3000000]>>}

\* The tools whose function raises in the call
RaisingTools == {{}, {"tool_get_risk"}, {"tool_get_safe_route"}}

\* One call of run_tool_router.
RunToolRouter ==
    /\ calc = NoCalc
    /\ \E pairs \in 0..2, intents \in RouterIntents, dest_lat \in RouterCoordinates,
          dest_lng \in RouterCoordinates, supplied \in BOOLEAN,
          table \in RouterTables, raising \in RaisingTools :
       \E tool_calls \in (IF supplied THEN SuppliedPlans ELSE {<<>>}) :
          calc' = [op |-> "run_tool_router", pairs |-> pairs, intents |-> intents,
                   dest_lat |-> dest_lat, dest_lng |-> dest_lng,
                   supplied |-> supplied, table |-> table,
                   result |-> run_tool_router(pairs, intents, dest_lat, dest_lng,
                                              supplied, tool_calls, table, raising)]
    /\ UNCHANGED <<hourly_cache, now, world, river_graph_cache, load_graph_cache, last,
                   run, ncalls, loads, backtest>>

NextRouter == RunToolRouter

SpecRouter == Init /\ [][NextRouter]_vars

----------------------------------------------------------------------------
(* Properties of get_hourly_rain *)

IsRainCall == last.op = "get_hourly_rain"
ReturnedOk == last.res.outcome = "return"
RaisedValueError == last.res.outcome = "raise" /\ last.res.exc = "ValueError"

\* clamp(hours, 1, 6), written out
ClampHours(h) == IF h < 1 THEN 1 ELSE IF h > 6 THEN 6 ELSE h

\* The records the request loop looks at: the first clamp(hours,1,6) of them.
ExaminedRecords(c) == Take(extract_hourly_records(c.resp), ClampHours(c.hours))

\* The provider request failed in one of the ways C1 lists.
ProviderFailure(c) ==
    \/ c.resp.kind \in {"non200", "exception", "badjson", "notdict", "nolist"}
    \/ ExaminedRecords(c) = <<>>
    \/ \E i \in 1..Len(ExaminedRecords(c)) :
          ExaminedRecords(c)[i].t \in {"nondict", "rainnotdict", "badtype", "text"}

\* C1: in live or historical mode with an API key configured, every failed
\* provider request (non-200, exception or timeout, invalid JSON, missing or
\* malformed hourly records, non-numeric rain value) makes get_hourly_rain
\* return the fallback series; nothing is raised to the caller.
C1_ProviderFailureFallsBack ==
    (IsRainCall /\ last.res.provider = 1 /\ ProviderFailure(last))
        => (ReturnedOk /\ last.res.fallback = 1)

\* The key C2 names: (coordinate rounded to 5 decimals, mode, reference time).
ClaimedKey(c) ==
    <<Round5(c.lat), Round5(c.lng), c.res.mode,
      IF c.res.mode = "historical" THEN c.reference_time.sec ELSE 0, <<>>>>

\* The call found, under its key, an entry younger than 600 s that holds at
\* least clamp(hours,1,6) values.
FoundServableEntry ==
    /\ last.had_entry
    /\ now - last.entry.at < 600
    /\ Len(last.entry.values) >= ClampHours(last.hours)

\* C2: a live or historical call that finds, under the key (rounded
\* coordinate, mode, reference time), an entry stored less than 600 s ago with
\* at least clamp(hours,1,6) values returns the first clamp(hours,1,6) values
\* of it, calls neither the provider nor the fallback generator, and leaves
\* the cache unchanged.
C2_CacheHitShortCircuits ==
    (IsRainCall /\ last.res.mode \in {"live", "historical"}
        /\ last.res.key # NoKey)
    => /\ last.res.key = ClaimedKey(last)
       /\ FoundServableEntry
            => /\ ReturnedOk
               /\ last.res.values = Take(last.entry.values, ClampHours(last.hours))
               /\ last.res.provider = 0
               /\ last.res.fallback = 0
               /\ ~last.cache_changed

\* A historical call served from an older, longer entry.
C2_Witness ==
    /\ IsRainCall /\ last.res.mode = "historical" /\ FoundServableEntry
    /\ now > last.entry.at
    /\ Len(last.entry.values) > ClampHours(last.hours)
    /\ last.res.hit

\* C3: no call returns values from a cache entry stored 600 s or more before
\* the call, and a hit leaves the entry, its timestamp included, as it was.
C3_NoStaleEntryServed ==
    (IsRainCall /\ last.res.hit)
        => /\ last.had_entry
           /\ now - last.entry.at < 600
           /\ hourly_cache[last.res.key] = last.entry

\* A call that found an entry of age 600 s or more, long enough, and did not
\* serve it.
C3_Witness ==
    /\ IsRainCall /\ last.had_entry /\ ReturnedOk
    /\ now - last.entry.at >= 600
    /\ Len(last.entry.values) >= ClampHours(last.hours)
    /\ ~last.res.hit

\* Malformed demo values: an entry that is non-numeric, negative or not
\* finite, or an argument of an unsupported type.
DemoMalformed(raw) ==
    \/ raw.form \in {"othertype", "badjson"}
    \/ \E i \in 1..Len(raw.items) :
          \/ raw.items[i].t \in {"text", "null", "nan", "inf"}
          \/ raw.items[i].t = "num" /\ raw.items[i].v < 0

RefMissingOrUnparseable(ref) == ref.form \in {"none", "blank", "garbage"}

InvalidInput ==
    \/ last.res.mode = "demo" /\ DemoMalformed(last.demo_rainfall)
    \/ last.res.mode = "historical" /\ RefMissingOrUnparseable(last.reference_time)

\* C8: a call whose demo values are malformed, or whose historical
\* reference_time is missing or unparseable, raises a validation error; the
\* provider is not called and the cache is left unchanged.
C8_InvalidInputRaises ==
    (IsRainCall /\ InvalidInput)
        => (RaisedValueError /\ last.res.provider = 0 /\ ~last.cache_changed)

\* A demo call with a bad seventh value, made when the cache is not empty.
C8_Witness ==
    /\ IsRainCall /\ last.res.mode = "demo"
    /\ Len(last.demo_rainfall.items) > 6
    /\ DemoMalformed(last.demo_rainfall)
    /\ RaisedValueError
    /\ DOMAIN hourly_cache # {}

\* C9: every call that returns, in any mode, on a hit or a miss, returns
\* exactly clamp(hours,1,6) values.
C9_ReturnsClampedLength ==
    (IsRainCall /\ ReturnedOk) => Len(last.res.values) = ClampHours(last.hours)

\* A call that found a fresh entry shorter than it needs and returned six values.
C9_Witness ==
    /\ IsRainCall /\ ReturnedOk /\ last.had_entry
    /\ now - last.entry.at < 600
    /\ Len(last.entry.values) < ClampHours(last.hours)
    /\ Len(last.res.values) = 6

DemoValid == IsRainCall /\ last.res.mode = "demo" /\ ~DemoMalformed(last.demo_rainfall)

\* C10 as stated: demo mode returns the caller's values themselves, in order,
\* cut or zero-padded to clamp(hours,1,6) entries; the provider is not called.
C10_DemoReturnsCallerValues ==
    DemoValid
        => /\ ReturnedOk
           /\ last.res.provider = 0
           /\ Len(last.res.values) = ClampHours(last.hours)
           /\ \A i \in 1..Len(last.res.values) :
                 10 * last.res.values[i] =
                    (IF i <= Len(last.demo_rainfall.items)
                     THEN last.demo_rainfall.items[i].v ELSE 0)

\* C10, amended: demo mode returns the caller's values, each rounded to one
\* decimal place, in order, cut or zero-padded to clamp(hours,1,6) entries,
\* whatever the coordinate and the cache; the provider is not called.
C10_DemoReturnsRoundedValues ==
    DemoValid
        => /\ ReturnedOk
           /\ last.res.provider = 0
           /\ last.res.fallback = 0
           /\ last.res.values =
                [i \in 1..ClampHours(last.hours) |->
                    IF i <= Len(last.demo_rainfall.items)
                    THEN Round1(last.demo_rainfall.items[i].v) ELSE 0]

\* Two demo values padded to six, answered from the cache.
C10_Witness ==
    /\ DemoValid /\ ReturnedOk /\ last.res.hit
    /\ Len(last.demo_rainfall.items) = 2
    /\ Len(last.res.values) = 6

\* C14: every value that a get_hourly_rain call writes into the weather cache
\* under a key is the same sequence: a call that writes under a key that
\* already holds an entry writes the values the entry held.
C14_StoredValueDependsOnKeyOnly ==
    (IsRainCall /\ last.res.key # NoKey /\ last.had_entry /\ last.cache_changed)
        => hourly_cache[last.res.key].values = last.entry.values

----------------------------------------------------------------------------
(* Properties of compute_upstream_rain_index *)

IsUpstreamCall == run.op = "compute_upstream_rain_index"

\* The river graph file is missing or cannot be read, or the graph in it has
\* no nodes or no node with both coordinates.
DegenerateRiverGraph ==
    \/ river_file.kind \in {"missing", "unreadable"}
    \/ /\ river_file.kind = "graph"
       /\ \A n \in river_file.nodes : ~river_file.coord[n].has

\* C7: when the river graph is missing, cannot be read, has no nodes or has no
\* node with coordinates, compute_upstream_rain_index returns a summary with
\* upstream_rain_index = 0, upstream_rain_index_norm = 0,
\* upstream_nodes_used = 0, dominant_upstream_points = [] and
\* expected_peak_in_hours = None; it does not raise and requests no rainfall.
C7_DegenerateGraphGivesZeroSummary ==
    (IsUpstreamCall /\ DegenerateRiverGraph)
        => /\ run.outcome = "return"
           /\ run.summary.upstream_rain_index = 0
           /\ run.summary.upstream_rain_index_norm = 0
           /\ run.summary.upstream_nodes_used = 0
           /\ run.summary.dominant_upstream_points = <<>>
           /\ run.summary.expected_peak_in_hours = NonePeak
           /\ run.rain_requests = 0
           /\ ~run.cache_changed

\* A call answered from a graph that has connected nodes, none of them with
\* coordinates; the graph was loaded by an earlier call.
C7_Witness ==
    /\ IsUpstreamCall /\ run.outcome = "return"
    /\ river_file.kind = "graph" /\ river_file.edges # {}
    /\ \A n \in river_file.nodes : ~river_file.coord[n].has
    /\ run.summary.max_distance_m = 21600
    /\ ncalls = 2

----------------------------------------------------------------------------
(* Properties of estimate_flood_risk *)

IsRiskCall == run.op = "estimate_flood_risk"

\* The call's weather inputs pass validation: well-formed demo values in demo
\* mode, a parseable reference_time in historical mode.
RunInputsValid ==
    /\ ~(run.mode = "demo" /\ DemoMalformed(run.demo_rainfall))
    /\ ~(run.mode = "historical" /\ RefMissingOrUnparseable(run.reference_time))

\* Every data file that exists is well-formed, and the call's own rainfall
\* request for the point was answered.
RiskSourcesSound ==
    /\ geodata.river # "corrupt"
    /\ geodata.flood_zones # "corrupt"
    /\ river_file.kind \in {"missing", "graph"}
    /\ run.rain.outcome = "return"

\* C6: estimate_flood_risk returns an assessment with a numeric risk_score
\* (an integer from 0 to 100) for every coordinate, hours value and weather
\* mode whose inputs pass validation, whichever of the weather API, the
\* elevation sources, the river data, the flood-zone file and the river graph
\* are available; it does not raise.
C6_AlwaysReturnsScore ==
    (IsRiskCall /\ RunInputsValid /\ RiskSourcesSound)
        => (run.outcome = "return" /\ run.risk_score \in 0..100)

----------------------------------------------------------------------------
(* Properties of compute_safe_route *)

IsRouteCall == run.op = "compute_safe_route"

\* The call got as far as the search can be expected to: the road graph was
\* loaded and the rainfall sample for the origin was obtained.
RouteCallPrepared ==
    IsRouteCall /\ road_file.kind = "graph" /\ run.rain.outcome = "return"

FullUndirected == [nodes |-> road_file.nodes, edges |-> road_file.edges, directed |-> FALSE]

\* The summed cost of a node path: for each hop the cheapest parallel edge
RECURSIVE PathCost(_, _, _)
PathCost(g, path, safety_weight) ==
    IF Len(path) < 2 THEN 0
    ELSE SetMin({edge_cost(e, safety_weight) : e \in Parallel(g, path[1], path[2])})
            + PathCost(g, Tail(path), safety_weight)

\* C4: for an origin and a destination that the road graph connects,
\* compute_safe_route returns a node path that minimises, among all paths from
\* the origin node to the destination node in the graph that was searched, the
\* sum over its edges of (length + hazard_score * safety_weight), taking for
\* each hop the cheapest parallel edge.
C4_ReturnsCheapestPath ==
    (RouteCallPrepared
        /\ SimplePaths(FullUndirected, run.origin_node, run.destination_node) # {})
    => /\ run.outcome = "return"
       /\ \A q \in SimplePaths(run.route_graph, run.origin_node, run.destination_node) :
             PathCost(run.route_graph, run.path, run.safety_weight)
                <= PathCost(run.route_graph, q, run.safety_weight)

\* C5: compute_safe_route searches the local subgraph first and the full
\* graph only if that search finds no path, and then once; it returns a route
\* plan with a path, or, if the full graph has no path either, raises the
\* no-route error.
C5_LocalSearchThenFullOnce ==
    RouteCallPrepared
    => LET local == extract_local_graph(road_file, run.origin_node, run.destination_node)
           found == SimplePaths(local, run.origin_node, run.destination_node) # {}
       IN  /\ run.searches = IF found THEN <<"local">> ELSE <<"local", "full">>
           /\ run.outcome = "return" => run.path # <<>>
           /\ run.outcome = "raise" => (~found /\ run.exc = "NetworkXNoPath")

\* C11: when the road graph file is absent, the load error is raised once, at
\* the first load; a later routing call in the same process does not attempt
\* the load again.
C11_LoadErrorRaisedOnce ==
    (IsRouteCall /\ road_file.kind = "missing" /\ ncalls >= 2) => ~run.load_ran

\* C15: when origin and destination snap to the same road-graph node,
\* compute_safe_route returns a route of exactly one waypoint with
\* total_distance = 0 and hazard_exposure = 0, and does not raise, whatever
\* the safety weight.
C15_SameNodeGivesSinglePoint ==
    (RouteCallPrepared /\ run.origin_node # NoNode
        /\ run.origin_node = run.destination_node)
    => /\ run.outcome = "return"
       /\ Len(run.path) = 1
       /\ run.total_distance = 0
       /\ run.hazard_exposure = 0

----------------------------------------------------------------------------
(* Properties of the memoised graphs *)

\* C12: after the first load no scoring or routing call changes the memoised
\* road graph or river graph: each holds the nodes, edges and edge attributes
\* (hazard_score included) that were read from its file.
C12_MemoisedGraphsUnchanged ==
    /\ river_graph_cache.set
          => river_graph_cache.value = read_river_graph(river_file, has_read_gpickle)
    /\ load_graph_cache.set => load_graph_cache.value = road_file

\* An upstream call that walked the reversed river graph from a graph loaded
\* before, in a process whose road graph a routing call has loaded.
C12_Witness ==
    /\ IsUpstreamCall /\ run.outcome = "return"
    /\ run.summary.upstream_nodes_used >= 2
    /\ river_graph_cache.set /\ load_graph_cache.set
    /\ ncalls = 2

\* C13: when several threads call load_graph (or _load_river_graph) before
\* the first load has completed, every thread that gets a graph gets one with
\* the content the cache holds, a call answered from the cache gets the very
\* object the cache holds from then on, and the loads, however many ran, leave
\* nothing behind but the cache entry.
C13_RacingLoadsConverge ==
    /\ \A t \in Threads :
          (loads.pc[t] = "done" /\ ~loads.got[t].raised)
              => /\ MemoOf(loads.fn[t]).set
                 /\ loads.got[t].value = MemoOf(loads.fn[t]).value
                 /\ loads.hit[t] => loads.got[t].id = MemoOf(loads.fn[t]).id
    /\ hourly_cache = EmptyCache /\ run = NoRun /\ last = NoCall

\* Two threads have each loaded the road graph, and a third was answered from
\* the cache.
C13_Witness ==
    \E t1, t2, t3 \in Threads :
        /\ t1 # t2
        /\ \A t \in {t1, t2, t3} : loads.pc[t] = "done" /\ loads.fn[t] = "road"
        /\ ~loads.hit[t1] /\ ~loads.hit[t2] /\ loads.hit[t3]
        /\ loads.got[t1].id # loads.got[t2].id
        /\ loads.got[t1].id # 0 /\ loads.got[t2].id # 0
        /\ road_file.kind = "graph"

----------------------------------------------------------------------------
(* Properties of the scoring functions *)

IsAssessment == calc.op = "risk_assessment"

\* C16: elevation_factor, river_proximity_factor, the factor of
\* historical_flood_factor, the normalised upstream index and the final
\* risk_score each lie in [0, 100], and risk_score is an integer, also for
\* very large rainfall sums and upstream indexes and for the 999 km river
\* distance.
C16_FactorsWithinRange ==
    IsAssessment
    => /\ calc.elev_factor \in 0..100
       /\ calc.river_factor \in 0..100000
       /\ calc.hist_factor \in 0..100
       /\ calc.upstream_norm \in 0..100000
       /\ calc.result.risk_score \in 0..100

\* Ten metres of rain, the river index far above its scale, no river data.
C16_Witness ==
    /\ IsAssessment
    /\ calc.local_rain_3h = 100000 /\ calc.total_weighted = 2000000000
    /\ calc.river_distance = 999000
    /\ calc.result.risk_score = 100 /\ calc.river_factor = 0

Rank(level) == CASE level = "LOW" -> 1 [] level = "MEDIUM" -> 2 [] level = "HIGH" -> 3

\* C17: classify_risk is monotonic in the score and exact at its thresholds
\* (65 and above HIGH, 35 to 64 MEDIUM, 34 and below LOW), and the risk_level
\* of an assessment is classify_risk of its risk_score.
C17_ClassifyRiskExact ==
    /\ calc.op = "classify_risk"
          => /\ calc.risk_level = (IF calc.score >= 65 THEN "HIGH"
                                   ELSE IF calc.score >= 35 THEN "MEDIUM" ELSE "LOW")
             /\ \A higher \in Scores :
                   calc.score <= higher
                      => Rank(calc.risk_level) <= Rank(classify_risk(higher))
    /\ IsAssessment
          => calc.result.risk_level =
                (IF calc.result.risk_score >= 65 THEN "HIGH"
                 ELSE IF calc.result.risk_score >= 35 THEN "MEDIUM" ELSE "LOW")

\* The score at the upper threshold
C17_Witness == calc.op = "classify_risk" /\ calc.score = 65 /\ calc.risk_level = "HIGH"

Texts(lines) == {lines[i].text : i \in 1..Len(lines)}

\* C18: the explanation begins with the rainfall, elevation, river-distance
\* and upstream-index lines in that order; it holds "Inside historical flood
\* zone" exactly when the point lies inside a flood-zone polygon (factor
\* 100), and "High flood risk conditions detected" exactly when risk_level is
\* HIGH, and then as its last entry.
C18_ExplanationOrdered ==
    IsAssessment
    => LET lines == calc.result.explanation
       IN  /\ Len(lines) >= 4
           /\ lines[1].text = "Rainfall next" /\ lines[1].b = calc.local_rain_3h
           /\ lines[2].text = "Elevation" /\ lines[2].a = calc.elevation_m
           /\ lines[3].text = "Distance to nearest river"
           /\ lines[3].a = calc.river_distance
           /\ lines[4].text = "Upstream risk index"
           /\ lines[4].b = calc.upstream_norm
           /\ ("Inside historical flood zone" \in Texts(lines)) <=> (calc.zone = "inside")
           /\ (calc.zone = "inside") <=> (calc.hist_factor = 100)
           /\ ("High flood risk conditions detected" \in Texts(lines))
                 <=> (calc.result.risk_level = "HIGH")
           /\ calc.result.risk_level = "HIGH"
                 => lines[Len(lines)].text = "High flood risk conditions detected"

\* A point inside a flood zone, at high risk, with rain found upstream.
C18_Witness ==
    /\ IsAssessment /\ calc.zone = "inside" /\ calc.result.risk_level = "HIGH"
    /\ Len(calc.result.explanation) = 7

----------------------------------------------------------------------------
(* Properties of nearest_evacuation_centers *)

IsNearestCall == calc.op = "nearest_evacuation_centers"

\* The rounded distances of a table's centers, and the radii step, 2 step, ...
\* up to max_radius_km that hold at least one of them
CenterDistances(centers) == {Round3(centers[i].haversine) : i \in 1..Len(centers)}
HoldingRadii(c) ==
    {r \in {k * c.radius_step_km : k \in 1..(c.max_radius_km \div c.radius_step_km)} :
        \E d \in CenterDistances(c.centers) : d <= r}

\* C19: nearest_evacuation_centers returns, in ascending order of distance,
\* the centers at most r away, r the smallest of the radii step, 2 step, ...
\* (up to max_radius_km) that holds a center, cut to the first `limit`
\* entries when a limit is given; the first entry is the nearest center of
\* all, and the result is empty only when no center lies within
\* max_radius_km.
C19_NearestWithinSmallestRadius ==
    IsNearestCall
    => LET res == calc.result
           within == {i \in 1..Len(calc.centers) :
                         Round3(calc.centers[i].haversine) <= SetMin(HoldingRadii(calc))}
       IN  /\ \A i, j \in 1..Len(res) : i < j => res[i].distance_km <= res[j].distance_km
           /\ HoldingRadii(calc) = {} => res = <<>>
           /\ HoldingRadii(calc) # {}
                 => /\ Len(res) = IF calc.limit = NoLimit THEN Cardinality(within)
                                  ELSE Min(calc.limit, Cardinality(within))
                    /\ \A k \in 1..Len(res) :
                          \E i \in within : /\ calc.centers[i].name = res[k].name
                                             /\ Round3(calc.centers[i].haversine)
                                                    = res[k].distance_km
                    /\ \A i \in within :
                          (\A k \in 1..Len(res) : res[k].name # calc.centers[i].name)
                             => \A k \in 1..Len(res) :
                                   res[k].distance_km <= Round3(calc.centers[i].haversine)
                    /\ res # <<>>
                    /\ res[1].distance_km = SetMin(CenterDistances(calc.centers))

----------------------------------------------------------------------------
(* Properties of the upstream search *)

\* The total lengths of the paths from node n to `source` that follow the
\* edges of the graph in their direction and visit no node twice
RECURSIVE PathLengths(_, _, _, _)
PathLengths(graph, n, source, visited) ==
    IF n = source THEN {0}
    ELSE UNION {{e[3] + l : l \in PathLengths(graph, e[2], source, visited \cup {n})} :
                  e \in {x \in graph.edges : x[1] = n /\ x[2] \notin visited \cup {n}}}

\* The node the call's point snaps to
SnappedSource == nearest_river_node_id(river_file, run.lat, run.lng)

\* The call got as far as the search: the graph is loaded and the point
\* snaps to a node.
UpstreamSearched ==
    /\ IsUpstreamCall
    /\ river_graph_cache.set /\ river_graph_cache.value.kind = "graph"
    /\ river_file.kind = "graph" /\ river_file.nodes # {}
    /\ SnappedSource # NoNode

\* C20: the nodes compute_upstream_rain_index aggregates are exactly the
\* nodes from which the snapped source node is reached along the edge
\* directions by a path of total length_m at most clamp(horizon_hours, 1, 6)
\* x 3600 m; the distance recorded for each is the least total length of
\* such a path; the source is among them at distance 0, and no node that
\* lies only downstream is.
C20_UpstreamNodesAreReverseReachable ==
    UpstreamSearched
    => LET within(n) ==
               {l \in PathLengths(river_file, n, SnappedSource, {}) :
                   l <= clamp(run.hours, 1, 6) * 3600}
       IN  /\ DOMAIN run.upstream_nodes = {n \in river_file.nodes : within(n) # {}}
           /\ \A n \in DOMAIN run.upstream_nodes :
                 run.upstream_nodes[n] = SetMin(within(n))
           /\ SnappedSource \in DOMAIN run.upstream_nodes
           /\ run.upstream_nodes[SnappedSource] = 0
           /\ \A n \in river_file.nodes :
                 PathLengths(river_file, n, SnappedSource, {}) = {}
                    => n \notin DOMAIN run.upstream_nodes
           /\ run.summary.upstream_nodes_used = Cardinality(DOMAIN run.upstream_nodes)
                 \/ run.outcome = "raise"

\* A search over the whole horizon that reaches a node by two paths and
\* records the shorter, leaves out a node beyond the horizon and the nodes
\* downstream of the source
C20_Witness ==
    /\ UpstreamSearched /\ run.outcome = "return"
    /\ clamp(run.hours, 1, 6) = 6
    /\ \E n \in DOMAIN run.upstream_nodes :
          /\ Cardinality(PathLengths(river_file, n, SnappedSource, {})) >= 2
          /\ run.upstream_nodes[n] = 4600
    /\ \E n \in river_file.nodes \ DOMAIN run.upstream_nodes :
          PathLengths(river_file, n, SnappedSource, {}) # {}
    /\ \E n \in river_file.nodes \ DOMAIN run.upstream_nodes :
          PathLengths(river_file, n, SnappedSource, {}) = {}

\* A search over one hour that keeps a node at exactly 3600 m and leaves out
\* a node that the six-hour search reaches
SearchOverOneHour ==
    /\ UpstreamSearched /\ run.outcome = "return"
    /\ clamp(run.hours, 1, 6) = 1
    /\ \E n \in DOMAIN run.upstream_nodes : run.upstream_nodes[n] = 3600
    /\ \E n \in river_file.nodes \ DOMAIN run.upstream_nodes :
          \E l \in PathLengths(river_file, n, SnappedSource, {}) : l <= 21600

----------------------------------------------------------------------------
(* Properties of the dominant upstream points *)

UpstreamReturned == IsUpstreamCall /\ run.outcome = "return"

\* The entries of dominant_upstream_points are entries of the payload, one
\* per node, in non-increasing order of weighted signal; there are three of
\* them, or as many as the payload has; no entry left out has a larger
\* weighted signal than an entry listed.
TopThreeBySignal ==
    LET points == run.summary.dominant_upstream_points
        listed == {points[i].node_id : i \in 1..Len(points)}
    IN  /\ Len(points) = Min(3, Len(run.dominant_payload))
        /\ Cardinality(listed) = Len(points)
        /\ \A i \in 1..Len(points) :
              /\ \E k \in 1..Len(run.dominant_payload) : run.dominant_payload[k] = points[i]
              /\ points[i].node_id \in DOMAIN run.upstream_nodes
              /\ points[i].distance_m = run.upstream_nodes[points[i].node_id]
              /\ points[i].weighted_signal
                    = Round3(points[i].rain_sum * DecayWeight(points[i].distance_m))
        /\ \A i, j \in 1..Len(points) :
              i < j => points[i].weighted_signal >= points[j].weighted_signal
        /\ \A k \in 1..Len(run.dominant_payload) :
              run.dominant_payload[k].node_id \notin listed
                 => \A i \in 1..Len(points) :
                       points[i].weighted_signal
                          >= run.dominant_payload[k].weighted_signal
        /\ {run.dominant_payload[k].node_id : k \in 1..Len(run.dominant_payload)}
              = {n \in DOMAIN run.upstream_nodes : river_file.coord[n].has}

----------------------------------------------------------------------------
(* Properties of the route totals *)

\* C22: for a call whose graph connects the two nodes, the edge added to
\* total_distance and hazard_exposure for each hop of the returned path is
\* the cheapest of the parallel edges between the two nodes, and
\* total_distance + safety_weight x hazard_exposure is the path cost that
\* the search minimised.
C22_TotalsAreTheSearchedCost ==
    (RouteCallPrepared
        /\ SimplePaths(FullUndirected, run.origin_node, run.destination_node) # {})
    => /\ run.outcome = "return"
       /\ run.total_distance * 1000 + run.safety_weight * run.hazard_exposure
             = PathCost(run.route_graph, run.path, run.safety_weight)
       /\ run.total_distance * 1000 + run.safety_weight * run.hazard_exposure
             = run.search_cost

----------------------------------------------------------------------------
(* Properties of the hazard scores *)

----------------------------------------------------------------------------
(* Properties of run_backtest *)

\* C24: no two BacktestRun rows in status RUNNING have creation times
\* within 2 minutes of each other, whatever the interleaving of two
\* run_backtest calls.
C24_NoTwoRunningWithinTwoMinutes ==
    \A i, j \in 1..Len(backtest.runs) :
        (i < j /\ backtest.runs[i].status = "running"
               /\ backtest.runs[j].status = "running")
           => backtest.runs[j].created_at - backtest.runs[i].created_at > RunningWindow

\* C25: once a run_backtest call that created a run has returned or failed,
\* the status of the run is COMPLETED or FAILED; only runs of status
\* COMPLETED have result rows.
C25_RunNeverLeftRunning ==
    /\ \A t \in BacktestThreads :
          (backtest.call[t].pc = "done" /\ backtest.call[t].run # 0)
             => backtest.runs[backtest.call[t].run].status \in {"completed", "failed"}
    /\ \A r \in backtest.results : backtest.runs[r].status = "completed"

----------------------------------------------------------------------------
(* Properties of the hazard scores *)

IsHazardCall == calc.op = "add_edge_hazard_scores"

\* The edges that the call gave a score
AssignedEdges ==
    {e \in calc.scored : <<e.u, e.v, e.key>> \in HazardComputed(calc.before)}

\* C29: with the upstream norm in [0, 100], every hazard score that
\* add_edge_hazard_scores assigns lies in [0, 9]: 2 for an elevation under
\* 20 m, at most 6 for the river, 1 for rain over 30 mm; and with
\* safety_weight 2.0 the cost of the edge is at most its length plus 18.
\* Scores and costs in thousandths.
C29_HazardWithinNine ==
    (IsHazardCall /\ calc.upstream_risk_norm \in 0..100000)
    => \A e \in AssignedEdges :
          LET low == IF e.elevation_m < 20 THEN 2000 ELSE 0
              rain == IF calc.rainfall_next_3h > 300 THEN 1000 ELSE 0
          IN  /\ e.hazard_score \in 0..9000
              /\ e.hazard_score - low - rain \in 0..6000
              /\ calc.safety_weight = 2
                    => /\ calc.cost[e] >= e.length * 1000
                       /\ calc.cost[e] <= e.length * 1000 + 18000

\* A low edge at the river under heavy rain and the largest upstream norm:
\* a score of 9 and a cost of the length plus 18
C29_Witness ==
    /\ IsHazardCall /\ calc.upstream_risk_norm = 100000 /\ calc.safety_weight = 2
    /\ \E e \in AssignedEdges :
          /\ e.hazard_score = 9000
          /\ calc.cost[e] = e.length * 1000 + 18000
    /\ \E e \in calc.scored \ AssignedEdges : e.hazard_score = 12500

\* An upstream norm over 100 gives a score over 9.
HazardOverNine ==
    IsHazardCall /\ \E e \in AssignedEdges : e.hazard_score > 9000

----------------------------------------------------------------------------
(* Properties of the estimated flood level *)

IsDepthCall == calc.op = "estimate_flood_depth_m"

\* C30: estimate_flood_depth_m returns a depth between 0 and 1.27 m, so the
\* flood_level_zone of a risk result is never "2-storey-height"; the zone is
\* the label classify_flood_depth gives the returned depth: "above-head"
\* from 1.0 m, "chest" from 0.5 m, "knee" from 0.2 m, "shallow" below.
C30_DepthWithinRangeAndZoneMatches ==
    IsDepthCall
    => LET depth == calc.estimated_flood_level_m
           zone == calc.flood_level_zone
       IN  /\ depth \in 0..127
           /\ zone # "2-storey-height"
           /\ zone = "above-head" <=> depth >= 100
           /\ zone = "chest" <=> depth \in 50..99
           /\ zone = "knee" <=> depth \in 20..49
           /\ zone = "shallow" <=> depth < 20

\* The deepest estimate: rain at or over 216 mm and the largest upstream
\* norm at an elevation of at most 50 m
C30_Witness ==
    /\ IsDepthCall /\ calc.local_rain_3h = 3000 /\ calc.upstream_norm = 1000
    /\ calc.elevation_m = 50
    /\ calc.estimated_flood_level_m = 127
    /\ calc.flood_level_zone = "above-head"

\* Every other zone is reached, and the smallest elevation scale.
DepthZonesReached ==
    /\ IsDepthCall /\ calc.elevation_m = 238 /\ calc.local_rain_3h = 2160
    /\ calc.upstream_norm = 0 /\ calc.estimated_flood_level_m = 25
    /\ calc.flood_level_zone = "knee"

----------------------------------------------------------------------------
(* Properties of the widening search *)

IsSearch == calc.op = "evacuation_search"

\* ceil(a / b) for a >= 0, b > 0
CeilDiv(a, b) == (a + b - 1) \div b

SearchWithinBounds ==
    IsSearch
    => /\ calc.radius_step_km > 0
            => calc.expansions <= CeilDiv(calc.max_radius_km, calc.radius_step_km)
       /\ calc.centers = <<>>
            => calc.pc = "done" /\ calc.result = <<>> /\ calc.passes = 0
       /\ calc.pc = "done"
            => calc.result = nearest_evacuation_centers(calc.centers, calc.limit,
                                                        calc.max_radius_km,
                                                        calc.radius_step_km)

\* C27: with radius_step_km > 0 nearest_evacuation_centers returns, after at
\* most ceil(max_radius_km / radius_step_km) expansions of the radius; with
\* no centers it returns [] without a pass of the loop.
C27_SearchTerminates ==
    /\ []SearchWithinBounds
    /\ (IsSearch /\ calc.radius_step_km > 0) ~> (IsSearch /\ calc.pc = "done")

\* A search that widened the radius 20 times, up to max_radius_km, and found
\* nothing
C27_Witness ==
    /\ IsSearch /\ calc.pc = "done" /\ calc.radius_step_km = RADIUS_STEP_KM
    /\ calc.max_radius_km = MAX_RADIUS_KM
    /\ calc.centers # <<>> /\ calc.result = <<>>
    /\ calc.expansions = 20

\* With a step of 0 the search never returns when no center is at distance 0.
SearchStalled ==
    IsSearch /\ calc.radius_step_km = 0 /\ calc.pc = "while"
    /\ calc.expansions = MaxExpansions

----------------------------------------------------------------------------
(* Properties of run_tool_router *)

IsRouterCall == calc.op = "run_tool_router"

\* The positions of `tool` in a sequence of tool calls
PositionsOf(calls, tool) == {i \in 1..Len(calls) : calls[i].tool = tool}

\* C26: run_tool_router calls the route tool only with both coordinates of
\* the destination present: the destination supplied with the call or in
\* the message when there is one, otherwise the first center of an
\* evacuation lookup made earlier in the plan; with neither it gives the
\* "No destination available" reply and computes no route; a plan built by
\* _build_tool_plan has the evacuation lookup before the route tool.
C26_RouteOnlyWithResolvedDestination ==
    IsRouterCall
    => LET res == calc.result
           given == calc.pairs >= 2 \/ calc.dest_lat # "none" \/ calc.dest_lng # "none"
       IN  /\ \A i \in PositionsOf(res.calls, "tool_get_safe_route") :
                 /\ res.calls[i].dest_lat # "none" /\ res.calls[i].dest_lng # "none"
                 /\ given => /\ res.calls[i].dest_lat \in {"argument", "message"}
                             /\ res.calls[i].dest_lng = res.calls[i].dest_lat
                 /\ ~given
                      => /\ res.calls[i].dest_lat = "center"
                         /\ res.calls[i].dest_lng = "center"
                         /\ \E j \in PositionsOf(res.calls, "tool_get_evac_centers") :
                               /\ j < i /\ res.calls[j].centers # <<>>
                               /\ res.destination_name = res.calls[j].centers[1].name
           /\ res.outcome = "no_destination"
                 => PositionsOf(res.calls, "tool_get_safe_route") = {}
           /\ ~calc.supplied
                 => \A i \in PositionsOf(res.plan, "tool_get_evac_centers"),
                       j \in PositionsOf(res.plan, "tool_get_safe_route") : i < j

====
